---------------------------- MODULE Spec2Model ----------------------------
(***************************************************************************)
(* QIP incentive calculation engine (src/src/step1_인센티브_계산.py).       *)
(*                                                                         *)
(* The specifications below share the operators of the module:            *)
(*   SpecFn  - the month/amount routines of DataProcessor applied to       *)
(*             inputs drawn from bounded sets (pure functions);            *)
(*   SpecT1  - one employee row taken through condition evaluation,        *)
(*             Previous_Incentive loading and the unified TYPE-1 stage;    *)
(*   SpecRun, SpecHier, SpecStages - calculate_all_incentives over small   *)
(*             employee tables;                                            *)
(*   SpecBfs, SpecBfsLive, SpecEdges - the traversal below a manager;      *)
(*   SpecAql, SpecCond6 - the audit history and condition 6;               *)
(*   SpecBldg - the reconciliation of the work area;                       *)
(*   SpecPeriods - one employee over consecutive periods.                  *)
(***************************************************************************)
EXTENDS Integers, Sequences, FiniteSets, TLC

\* The employee table and its inputs (SpecT1, SpecRun).
VARIABLES pc, config, roster, measured, prev_file, month_data,
          subordinate_mapping

\* One call of a month/amount routine (SpecFn).
VARIABLES fn_pc, fn_in, fn_out

vars == <<pc, config, roster, measured, prev_file, month_data,
          subordinate_mapping, fn_pc, fn_in, fn_out>>

tbl_vars == <<pc, config, roster, measured, prev_file, month_data,
              subordinate_mapping>>

fn_vars == <<fn_pc, fn_in, fn_out>>

\* What no stage of calculate_all_incentives writes.
fixed == <<config, roster, measured, prev_file, fn_pc, fn_in, fn_out>>

(***************************************************************************)
(* Bounds of the model.                                                    *)
(***************************************************************************)
MaxMonths == 17

(***************************************************************************)
(* Helpers.                                                                *)
(***************************************************************************)
Min(a, b) == IF a <= b THEN a ELSE b

Abs(x) == IF x < 0 THEN 0 - x ELSE x

MinOf(S) == CHOOSE x \in S : \A y \in S : x <= y

(***************************************************************************)
(* Amount tables.                                                          *)
(***************************************************************************)
\* DataProcessor._load_progression_table: the hard-coded fallback table
\* (config_files/position_condition_matrix.json absent or unreadable).
progression_table ==
  [m \in 0..15 |->
     CASE m = 0 -> 0
       [] m = 1 -> 150000
       [] m = 2 -> 250000
       [] m = 3 -> 300000
       [] m = 4 -> 350000
       [] m = 5 -> 400000
       [] m = 6 -> 450000
       [] m = 7 -> 500000
       [] m = 8 -> 650000
       [] m = 9 -> 750000
       [] m = 10 -> 850000
       [] m = 11 -> 950000
       [] OTHER -> 1000000]

\* The table literal of _calculate_standard_progression (keys 0..15).
standard_progression_table ==
  [m \in 0..15 |->
     CASE m = 0 -> 0
       [] m = 1 -> 150000
       [] m = 2 -> 250000
       [] m = 3 -> 300000
       [] m = 4 -> 350000
       [] m = 5 -> 400000
       [] m = 6 -> 450000
       [] m = 7 -> 500000
       [] m = 8 -> 650000
       [] m = 9 -> 750000
       [] m = 10 -> 850000
       [] m = 11 -> 950000
       [] OTHER -> 1000000]

\* part1_table of _calculate_aql_inspector_3part / _reverse_calculate_aql_months
\* (keys 1..15).
part1_table ==
  [m \in 1..15 |->
     CASE m = 1 -> 150000
       [] m = 2 -> 250000
       [] m = 3 -> 300000
       [] m = 4 -> 350000
       [] m = 5 -> 400000
       [] m = 6 -> 450000
       [] m = 7 -> 500000
       [] m = 8 -> 650000
       [] m = 9 -> 750000
       [] m = 10 -> 850000
       [] m = 11 -> 950000
       [] OTHER -> 1000000]

\* part3_table (HWK) of _calculate_aql_inspector_3part: 0 before month 4.
part3_table ==
  [m \in 1..15 |->
     CASE m <= 3 -> 0
       [] m <= 6 -> 300000
       [] m <= 9 -> 500000
       [] m <= 12 -> 700000
       [] OTHER -> 900000]

\* hwk_table of _reverse_calculate_aql_months (keys 4..15).
hwk_table ==
  [m \in 4..15 |->
     CASE m <= 6 -> 300000
       [] m <= 9 -> 500000
       [] m <= 12 -> 700000
       [] OTHER -> 900000]

\* cfa_amount of _reverse_calculate_aql_months and part2 of the 3-part sum.
cfa_amount == 700000

(***************************************************************************)
(* Reverse derivation of the month count from a paid amount.               *)
(* Each routine returns [months, warned]: the value returned and whether   *)
(* the routine printed a diagnostic on the way.                            *)
(***************************************************************************)

\* DataProcessor._reverse_calculate_months_from_incentive (legacy routine):
\* iterates self.progression_table in key order, skips key 0, returns
\* months + 1 on the first equal amount, else prints two warnings and
\* returns 1.
reverse_calculate_months_from_incentive(incentive_amount) ==
  IF incentive_amount <= 0
    THEN [months |-> 1, warned |-> FALSE]
    ELSE LET hits == {m \in 1..15 : progression_table[m] = incentive_amount}
         IN IF hits # {}
              THEN [months |-> MinOf(hits) + 1, warned |-> FALSE]
              ELSE [months |-> 1, warned |-> TRUE]

\* DataProcessor._reverse_calculate_aql_months: subtract cfa_amount (keep the
\* total when the difference is negative), then return the first month in
\* 1..15 whose part1 + hwk amount is within 5% of the remainder, else 1.
\* abs(base - expected) <= expected * 0.05 is 20 * |base - expected| <= expected.
reverse_calculate_aql_months(total_incentive) ==
  IF total_incentive <= 0
    THEN [months |-> 0, warned |-> FALSE]
    ELSE LET base0 == total_incentive - cfa_amount
             base_amount == IF base0 < 0 THEN total_incentive ELSE base0
             expected_base(m) ==
               part1_table[m] + (IF m >= 4 THEN hwk_table[m] ELSE 0)
             hits == {m \in 1..15 :
                        /\ expected_base(m) > 0
                        /\ 20 * Abs(base_amount - expected_base(m))
                             <= expected_base(m)}
         IN IF hits # {}
              THEN [months |-> MinOf(hits), warned |-> FALSE]
              ELSE [months |-> 1, warned |-> FALSE]

\* The table literal of _reverse_calculate_months_from_incentive_unified
\* (keys 1..15).
unified_reverse_table ==
  [m \in 1..15 |->
     CASE m = 1 -> 150000
       [] m = 2 -> 250000
       [] m = 3 -> 300000
       [] m = 4 -> 350000
       [] m = 5 -> 400000
       [] m = 6 -> 450000
       [] m = 7 -> 500000
       [] m = 8 -> 650000
       [] m = 9 -> 750000
       [] m = 10 -> 850000
       [] m = 11 -> 950000
       [] OTHER -> 1000000]

\* The unified reverse routine returning the following month on a match, as
\* the legacy routine does.
reverse_unified_next_month(incentive_amount, position_category) ==
  IF incentive_amount <= 0
    THEN [months |-> 0, warned |-> FALSE]
    ELSE LET hits == {m \in 1..15 : unified_reverse_table[m] = incentive_amount}
         IN IF hits # {}
              THEN [months |-> MinOf(hits) + 1, warned |-> FALSE]
              ELSE [months |-> 1, warned |-> FALSE]

\* DataProcessor._reverse_calculate_months_from_incentive_unified: exact match
\* (first key in order), else the first closest entry when its distance is
\* within 10% of the amount, else 1.  No diagnostic is printed on any path.
reverse_calculate_months_from_incentive_unified(incentive_amount, position_category) ==
  IF incentive_amount <= 0
    THEN [months |-> 0, warned |-> FALSE]
    ELSE IF position_category = "AQL_INSPECTOR"
      THEN reverse_calculate_aql_months(incentive_amount)
      ELSE
        LET hits == {m \in 1..15 : unified_reverse_table[m] = incentive_amount}
            diff(m) == Abs(incentive_amount - unified_reverse_table[m])
            min_diff == MinOf({diff(m) : m \in 1..15})
            closest_months == MinOf({m \in 1..15 : diff(m) = min_diff})
        IN IF hits # {}
             THEN [months |-> MinOf(hits), warned |-> FALSE]
             ELSE IF 10 * min_diff <= incentive_amount
               THEN [months |-> closest_months, warned |-> FALSE]
               ELSE [months |-> 1, warned |-> FALSE]

\* DataProcessor.calculate_continuous_months_from_history (legacy caller of
\* the legacy reverse routine): Previous_Incentive < 1 gives 1, otherwise
\* min(reverse + 1, 15).
calculate_continuous_months_from_history(prev_incentive) ==
  IF prev_incentive = 0 \/ prev_incentive < 1
    THEN 1
    ELSE Min(reverse_calculate_months_from_incentive(prev_incentive).months + 1, 15)

\* _calculate_continuous_months_type1_unified without its reset on failed
\* conditions.
continuous_months_without_reset(all_conditions_pass, position_category, previous_incentive) ==
  IF previous_incentive <= 0
    THEN 1
    ELSE Min(reverse_calculate_months_from_incentive_unified(
               previous_incentive, position_category).months + 1, 15)

\* DataProcessor._calculate_continuous_months_type1_unified.
calculate_continuous_months_type1_unified(all_conditions_pass, position_category, previous_incentive) ==
  IF ~all_conditions_pass
    THEN 0
    ELSE IF previous_incentive <= 0
      THEN 1
      ELSE Min(reverse_calculate_months_from_incentive_unified(
                 previous_incentive, position_category).months + 1, 15)

(***************************************************************************)
(* Amount computation by category.                                         *)
(***************************************************************************)

\* _calculate_standard_progression without the min(continuous_months, 15) cap.
standard_progression_uncapped(continuous_months) ==
  [incentive_amount |-> IF continuous_months \in DOMAIN standard_progression_table
                          THEN standard_progression_table[continuous_months]
                          ELSE 0,
   continuous_months |-> continuous_months,
   calculation_method |-> "standard_progression"]

\* DataProcessor._calculate_standard_progression: months = min(input, 15),
\* amount = table.get(months, 0).
calculate_standard_progression(continuous_months) ==
  LET months == Min(continuous_months, 15)
  IN [incentive_amount |-> IF months \in DOMAIN standard_progression_table
                             THEN standard_progression_table[months] ELSE 0,
      continuous_months |-> months,
      calculation_method |-> "standard_progression"]

\* DataProcessor._calculate_aql_inspector_3part; cfa_certified is the result of
\* _check_cfa_certification (a lookup in aql_inspector_incentive_config.json).
calculate_aql_inspector_3part(cfa_certified, continuous_months) ==
  LET months == Min(continuous_months, 15)
      part1 == IF months \in DOMAIN part1_table THEN part1_table[months] ELSE 0
      part2 == IF cfa_certified THEN cfa_amount ELSE 0
      part3 == IF months \in DOMAIN part3_table THEN part3_table[months] ELSE 0
  IN [incentive_amount |-> part1 + part2 + part3,
      continuous_months |-> months,
      calculation_method |-> "3-part"]

\* _calculate_type1_incentive_by_category dispatching every category to the
\* 3-part formula.
type1_incentive_always_3part(position_category, continuous_months, cfa_certified, all_conditions_pass) ==
  IF ~all_conditions_pass \/ continuous_months <= 0
    THEN [incentive_amount |-> 0,
          continuous_months |-> 0,
          calculation_method |-> "conditions_not_met"]
    ELSE calculate_aql_inspector_3part(cfa_certified, continuous_months)

\* DataProcessor._calculate_type1_incentive_by_category.
calculate_type1_incentive_by_category(position_category, continuous_months, cfa_certified, all_conditions_pass) ==
  IF ~all_conditions_pass \/ continuous_months <= 0
    THEN [incentive_amount |-> 0,
          continuous_months |-> 0,
          calculation_method |-> "conditions_not_met"]
    ELSE IF position_category = "AQL_INSPECTOR"
      THEN calculate_aql_inspector_3part(cfa_certified, continuous_months)
      ELSE calculate_standard_progression(continuous_months)

(***************************************************************************)
(* SpecFn: the routines above applied to drawn inputs.                     *)
(***************************************************************************)
\* No table is loaded while the routines are exercised on their own.
NoTable ==
  /\ pc = "no_table"
  /\ config = <<>>
  /\ roster = <<>>
  /\ measured = <<>>
  /\ prev_file = <<>>
  /\ month_data = <<>>
  /\ subordinate_mapping = <<>>

\* Amounts offered as Previous_Incentive: every table amount, every 3-part
\* total, and amounts next to the table amounts.
TableAmounts == {unified_reverse_table[m] : m \in 1..15}

AqlTotals ==
  {calculate_aql_inspector_3part(c, m).incentive_amount :
     c \in BOOLEAN, m \in 1..15}

AmountOffsets == {-50000, -10000, 10000, 50000}

PrevAmounts ==
  {0} \cup TableAmounts \cup AqlTotals
      \cup {a + d : a \in TableAmounts, d \in AmountOffsets}

FnCategories == {"ASSEMBLY_INSPECTOR", "AQL_INSPECTOR"}

NoCall == [fn |-> "none", months |-> 0, amount |-> 0, warned |-> FALSE]

InitFn ==
  /\ fn_pc = "ready"
  /\ fn_in \in [amount : PrevAmounts, months : 0..MaxMonths,
                cfa : BOOLEAN, category : FnCategories]
  /\ fn_out = NoCall
  /\ NoTable

Returned(fn, months, amount, warned) ==
  /\ fn_pc' = "returned"
  /\ fn_out' = [fn |-> fn, months |-> months, amount |-> amount,
                warned |-> warned]
  /\ UNCHANGED <<fn_in, tbl_vars>>

CallReverseLegacy ==
  /\ fn_pc = "ready"
  /\ LET r == reverse_calculate_months_from_incentive(fn_in.amount)
     IN Returned("reverse_legacy", r.months, fn_in.amount, r.warned)

CallReverseUnified ==
  /\ fn_pc = "ready"
  /\ LET r == reverse_calculate_months_from_incentive_unified(
                fn_in.amount, fn_in.category)
     IN Returned("reverse_unified", r.months, fn_in.amount, r.warned)

CallStandardProgression ==
  /\ fn_pc = "ready"
  /\ LET r == calculate_standard_progression(fn_in.months)
     IN Returned("standard_progression", r.continuous_months,
                 r.incentive_amount, FALSE)

CallAql3Part ==
  /\ fn_pc = "ready"
  /\ fn_in.months >= 1
  /\ LET r == calculate_aql_inspector_3part(fn_in.cfa, fn_in.months)
     IN Returned("aql_3part", r.continuous_months, r.incentive_amount, FALSE)

\* The amount paid in one period is the Previous_Incentive of the next one:
\* the reverse routine of the paying category is applied to it.
ReversePaid ==
  /\ fn_pc = "returned"
  /\ fn_out.fn \in {"aql_3part", "standard_progression"}
  /\ fn_out.amount > 0
  /\ LET cat == IF fn_out.fn = "aql_3part"
                  THEN "AQL_INSPECTOR" ELSE "ASSEMBLY_INSPECTOR"
         r == reverse_calculate_months_from_incentive_unified(fn_out.amount, cat)
     IN /\ fn_pc' = "reversed"
        /\ fn_out' = [fn |-> IF cat = "AQL_INSPECTOR"
                               THEN "reverse_of_aql_3part"
                               ELSE "reverse_of_standard",
                      months |-> r.months, amount |-> fn_out.amount,
                      warned |-> r.warned]
        /\ UNCHANGED <<fn_in, tbl_vars>>

NextFn ==
  \/ CallReverseLegacy
  \/ CallReverseUnified
  \/ CallStandardProgression
  \/ CallAql3Part
  \/ ReversePaid

SpecFn == InitFn /\ [][NextFn]_vars

(***************************************************************************)
(* Properties of the month/amount routines (SpecFn).                       *)
(***************************************************************************)
\* The month counts whose table amount is the given amount.
TableMonths(amount) == {n \in 1..15 : progression_table[n] = amount}

\* C5: when the previous amount is ProgressionTable[n] for a unique n <= 11,
\* every reverse-derivation routine (the legacy one and the unified one for the
\* standard categories) returns n.
C5_ReverseReturnsTableMonth ==
  (/\ fn_pc = "returned"
   /\ \/ fn_out.fn = "reverse_legacy"
      \/ fn_out.fn = "reverse_unified" /\ fn_in.category # "AQL_INSPECTOR")
  => \A n \in 1..11 :
       TableMonths(fn_in.amount) = {n} => fn_out.months = n

\* C6: for the 3-part role, for m in 1..12 and both values of the CFA flag,
\* the reverse derivation applied to the amount Part1(m) + Part2 + Part3(m)
\* paid for month m returns m.
C6_AqlRoundTrip ==
  (/\ fn_pc = "reversed"
   /\ fn_out.fn = "reverse_of_aql_3part"
   /\ fn_in.months \in 1..12)
  => fn_out.months = fn_in.months

\* The amounts that match a table entry exactly: a standard table amount, or
\* for the 3-part role a total the calculator pays.
ExactMatch(amount, category) ==
  IF category = "AQL_INSPECTOR"
    THEN amount \in AqlTotals
    ELSE amount \in TableAmounts

\* C7: a positive previous amount with no exact match makes the unified
\* reverse derivation return 1 month and emit a diagnostic.
C7_NoMatchFallsBackWithDiagnostic ==
  (/\ fn_pc = "returned"
   /\ fn_out.fn = "reverse_unified"
   /\ fn_in.amount > 0
   /\ ~ExactMatch(fn_in.amount, fn_in.category))
  => (fn_out.months = 1 /\ fn_out.warned)

\* C9: the amounts paid by the standard progression are non-decreasing in the
\* month count over 1..15, and every month count >= 15 is paid the month-15
\* amount.
C9_PaymentNonDecreasingAndCapped ==
  (fn_pc = "returned" /\ fn_out.fn = "standard_progression")
  => /\ fn_in.months >= 15
          => fn_out.amount = calculate_standard_progression(15).incentive_amount
     /\ \A m1 \in 1..15 :
          (m1 < fn_in.months /\ fn_in.months <= 15)
            => calculate_standard_progression(m1).incentive_amount
                 <= fn_out.amount

C9_Witness ==
  /\ fn_pc = "returned"
  /\ fn_out.fn = "standard_progression"
  /\ fn_in.months > 15
  /\ fn_out.amount = 1000000


(***************************************************************************)
(* The employee table.                                                     *)
(***************************************************************************)
\* A missing numeric cell (pandas NaN): every comparison with it is false.
NaN == 0 - 1

\* Employee numbers are the row keys of month_data.
Emps == DOMAIN roster

\* Employee numbers in row order up to i.
UpTo(i) == {e \in Emps : e <= i}

MaxEmp == IF Emps = {} THEN 0 ELSE CHOOSE e \in Emps : \A f \in Emps : f <= e

(***************************************************************************)
(* Position titles and the substring tests made on them.                   *)
(***************************************************************************)
PositionNames ==
  {"ASSEMBLY INSPECTOR", "AQL INSPECTOR", "MODEL MASTER",
   "AUDIT & TRAINING TEAM", "LINE LEADER", "Line Leader", "GROUP LEADER",
   "(V) SUPERVISOR", "SUPERVISOR", "A.MANAGER", "MANAGER", "S.MANAGER",
   "QA TEAM", "PACKING STAFF"}

\* str.upper() on the titles above.
Upper(name) == IF name = "Line Leader" THEN "LINE LEADER" ELSE name

\* <<u, p>> is listed exactly when pattern p is a substring of the
\* upper-cased title u (Python's `p in u`).
SubstringPairs ==
  {<<"(V) SUPERVISOR", "SUPERVISOR">>,
   <<"A.MANAGER", "MANAGER">>,
   <<"A.MANAGER", "A.MANAGER">>,
   <<"AQL INSPECTOR", "AQL INSPECTOR">>,
   <<"AQL INSPECTOR", "AQL">>,
   <<"AQL INSPECTOR", "INSPECTOR">>,
   <<"ASSEMBLY INSPECTOR", "ASSEMBLY INSPECTOR">>,
   <<"ASSEMBLY INSPECTOR", "ASSEMBLY">>,
   <<"ASSEMBLY INSPECTOR", "INSPECTOR">>,
   <<"AUDIT & TRAINING TEAM", "AUDIT & TRAINING TEAM">>,
   <<"AUDIT & TRAINING TEAM", "AUDIT & TRAINING">>,
   <<"AUDIT & TRAINING TEAM", "AUDIT">>,
   <<"AUDIT & TRAINING TEAM", "TRAINING">>,
   <<"GROUP LEADER", "GROUP LEADER">>,
   <<"GROUP LEADER", "LEADER">>,
   <<"GROUP LEADER", "GROUP">>,
   <<"LINE LEADER", "LINE LEADER">>,
   <<"LINE LEADER", "LINE">>,
   <<"LINE LEADER", "LEADER">>,
   <<"MANAGER", "MANAGER">>,
   <<"MODEL MASTER", "MODEL MASTER">>,
   <<"S.MANAGER", "MANAGER">>,
   <<"SUPERVISOR", "SUPERVISOR">>}

Contains(name_upper, pattern) == <<name_upper, pattern>> \in SubstringPairs

ContainsAny(name_upper, patterns) ==
  \E p \in patterns : Contains(name_upper, p)

\* DataProcessor._get_type1_position_category.
get_type1_position_category(position_code, position_name) ==
  LET name == Upper(position_name)
  IN CASE ContainsAny(name, {"AQL INSPECTOR", "AQL", "CFA CERTIFIED"})
            -> "AQL_INSPECTOR"
       [] ContainsAny(name, {"MANAGER", "A.MANAGER", "SUPERVISOR",
                             "GROUP LEADER"})
            -> "MANAGER_TYPE"
       [] Contains(name, "LINE LEADER") -> "LINE_LEADER_TYPE"
       [] ContainsAny(name, {"AUDIT & TRAINING TEAM", "AUDIT & TRAINING",
                             "AUDITOR", "TRAINER"})
            -> "AUDITOR_TRAINER"
       [] ContainsAny(name, {"MODEL MASTER", "SAMPLE"}) -> "MODEL_MASTER"
       [] Contains(name, "ASSEMBLY INSPECTOR") -> "ASSEMBLY_INSPECTOR"
       [] position_code = "D" -> "MODEL_MASTER"
       [] OTHER -> "OTHER"

\* DataProcessor._get_applicable_conditions.
get_applicable_conditions(position_category) ==
  CASE position_category = "AQL_INSPECTOR" -> {1, 2, 3, 4, 5}
    [] position_category = "ASSEMBLY_INSPECTOR" -> {1, 2, 3, 4, 5, 6, 9, 10}
    [] position_category = "AUDITOR_TRAINER" -> {1, 2, 3, 4, 7, 8}
    [] position_category = "MODEL_MASTER" -> {1, 2, 3, 4, 8}
    [] OTHER -> {1, 2, 3, 4}

\* get_position_config_from_matrix(emp_type, position)['applicable_conditions']:
\* the content of config_files/position_condition_matrix.json, which is not
\* among the sources; the sets are the ones the code documents for each
\* position (docstrings of _get_applicable_conditions, calculate_head_incentive,
\* calculate_line_leader_incentive_type1_only, calculate_type2_non_group_leaders).
matrix_applicable_conditions(emp_type, position) ==
  LET name == Upper(position)
  IN CASE emp_type = "TYPE-3" -> {}
       [] emp_type = "TYPE-2" -> {1, 2, 3, 4}
       [] Contains(name, "AQL") -> {1, 2, 3, 4, 5}
       [] Contains(name, "LINE LEADER") -> {1, 2, 3, 4, 7}
       [] Contains(name, "ASSEMBLY INSPECTOR") -> {1, 2, 3, 4, 5, 6, 9, 10}
       [] Contains(name, "AUDIT & TRAINING") -> {1, 2, 3, 4, 7, 8}
       [] Contains(name, "MODEL MASTER") -> {1, 2, 3, 4, 8}
       [] OTHER -> {1, 2, 3, 4}

(***************************************************************************)
(* Thresholds: the defaults of add_condition_evaluation_to_excel.          *)
(***************************************************************************)
attendance_rate_threshold == 88
unapproved_absence_threshold == 2
minimum_working_days_threshold == 12
area_reject_pct == 3
prs_pass_rate_threshold == 95
prs_min_qty_threshold == 100

\* Policy cutover of _is_consecutive_failure_for_year.
cutover_year == 2025

ContinuousFailTags == {"NO", "YES_2MONTHS_DEC_JAN", "YES_3MONTHS"}

\* month_name[:3].upper() for the file's month name.
MonthAbbrev(month) ==
  <<"JAN", "FEB", "MAR", "APR", "MAY", "JUN", "JUL", "AUG", "SEP", "OCT",
    "NOV", "DEC">>[month]

\* The values of Continuous_FAIL that begin with YES: the tags of the history
\* detector and the YES of the legacy detector.
YesTags ==
  {"YES", "YES_3MONTHS"}
  \cup {"YES_2MONTHS_" \o MonthAbbrev(a) \o "_" \o MonthAbbrev(b) :
          a, b \in 1..12}

\* str.startswith('YES').
StartsWithYES(tag) == tag \in YesTags

\* CompleteQIPCalculator._is_consecutive_failure_for_year.
is_consecutive_failure_for_year(continuous_fail_value, year) ==
  IF year <= cutover_year
    THEN continuous_fail_value = "YES_3MONTHS"
    ELSE StartsWithYES(continuous_fail_value)

\* Comparisons of a possibly missing cell against a threshold.
GE(x, t) == x # NaN /\ x >= t
LE(x, t) == x # NaN /\ x <= t
GT(x, t) == x # NaN /\ x > t
LT(x, t) == x # NaN /\ x < t

PassFail(b) == IF b THEN "PASS" ELSE "FAIL"

(***************************************************************************)
(* add_condition_evaluation_to_excel                                       *)
(***************************************************************************)
\* subordinate_mapping_cache of add_condition_evaluation_to_excel: built from
\* the 'MST direct boss name' column of every row.
subordinate_mapping_cache ==
  [b \in Emps |-> {s \in Emps : roster[s].mst_boss = b}]

\* team_aql_fail of condition 7 for row e.
team_aql_fail(e) ==
  LET name == Upper(roster[e].position)
      flagged(s) == is_consecutive_failure_for_year(
                      measured[s].continuous_fail, config.year)
  IN IF Contains(name, "LINE") /\ Contains(name, "LEADER")
       THEN \E s \in subordinate_mapping_cache[e] : flagged(s)
       ELSE IF (Contains(name, "AUDIT") \/ Contains(name, "TRAINING"))
               /\ ~Contains(name, "MODEL MASTER")
         THEN \E s \in roster[e].area : flagged(s)
         ELSE FALSE

\* The ten cond_i columns written for row e.
condition_columns(e) ==
  LET r == roster[e]
      m == measured[e]
      applicable_conditions ==
        matrix_applicable_conditions(r.role_type, r.position)
      gate(i, result) ==
        IF i \in applicable_conditions THEN result ELSE "NOT_APPLICABLE"
      expected_working_days == m.total_days - m.approved_leave
      cond_1_result ==
        IF expected_working_days <= 0
          THEN "NOT_APPLICABLE"
          ELSE PassFail(GE(m.attendance_rate, attendance_rate_threshold))
      cond_2_result ==
        IF m.unapproved_absence = NaN
          THEN "NOT_APPLICABLE"
          ELSE PassFail(m.unapproved_absence <= unapproved_absence_threshold)
      cond_3_result == PassFail(GT(m.actual_working_days, 0))
      cond_4_result ==
        PassFail(GE(m.actual_working_days, minimum_working_days_threshold))
      cond_5_result == PassFail(m.aql_fail = 0)
      cond_6_result ==
        PassFail(~is_consecutive_failure_for_year(m.continuous_fail, config.year))
      cond_7_result == PassFail(~team_aql_fail(e))
      cond_8_result == PassFail(LT(m.area_reject_rate, area_reject_pct))
      cond_9_result == PassFail(GE(m.prs_pass_rate, prs_pass_rate_threshold))
      cond_10_result == PassFail(GE(m.prs_qty, prs_min_qty_threshold))
  IN [i \in 1..10 |->
        CASE i = 1 -> gate(1, cond_1_result)
          [] i = 2 -> gate(2, cond_2_result)
          [] i = 3 -> gate(3, cond_3_result)
          [] i = 4 -> gate(4, cond_4_result)
          [] i = 5 -> gate(5, cond_5_result)
          [] i = 6 -> gate(6, cond_6_result)
          [] i = 7 -> gate(7, cond_7_result)
          [] i = 8 -> gate(8, cond_8_result)
          [] i = 9 -> gate(9, cond_9_result)
          [] OTHER -> gate(10, cond_10_result)]

\* The aggregate of add_condition_evaluation_to_excel: the conditions whose
\* column is neither NOT_APPLICABLE nor empty.
recorded_applicable(cond) == {i \in 1..10 : cond[i] \in {"PASS", "FAIL"}}

recorded_passed(cond) == {i \in recorded_applicable(cond) : cond[i] = "PASS"}

AddConditionEvaluation ==
  /\ pc = "start"
  /\ pc' = "conditions_evaluated"
  /\ month_data' =
       IF ~config.matrix_loaded
         THEN month_data
         ELSE [e \in Emps |->
                 LET cond == condition_columns(e)
                     applicable_count == Cardinality(recorded_applicable(cond))
                     passed_count == Cardinality(recorded_passed(cond))
                 IN [month_data[e] EXCEPT
                       !.cond = cond,
                       !.conditions_applicable = applicable_count,
                       !.conditions_passed = passed_count,
                       !.conditions_pass_rate =
                          IF applicable_count > 0
                            THEN (passed_count * 100) \div applicable_count
                            ELSE 0]]
  /\ UNCHANGED <<fixed, subordinate_mapping>>

(***************************************************************************)
(* _load_previous_incentive_early                                          *)
(***************************************************************************)
\* Previous_Incentive = the previous period's paid amount per employee number,
\* 0 for employees absent from the file (map(...).fillna(0)).
LoadPreviousIncentiveEarly ==
  /\ pc = "conditions_evaluated"
  /\ pc' = "previous_loaded"
  /\ month_data' =
       [e \in Emps |->
          [month_data[e] EXCEPT
             !.Previous_Incentive =
                IF prev_file[e] = NaN THEN 0 ELSE prev_file[e]]]
  /\ UNCHANGED <<fixed, subordinate_mapping>>

(***************************************************************************)
(* calculate_type1_incentive_unified                                       *)
(***************************************************************************)
\* DataProcessor._evaluate_type1_conditions_unified on the cond columns of a
\* row: a missing column reads as 'PASS'; PASS and NOT_APPLICABLE are both
\* appended to passed_conditions.
evaluate_type1_conditions_unified(cond, position_category) ==
  LET applicable_conditions == get_applicable_conditions(position_category)
      value(i) == IF cond[i] = "MISSING" THEN "PASS" ELSE cond[i]
      passed_conditions ==
        {i \in applicable_conditions : value(i) \in {"PASS", "NOT_APPLICABLE"}}
      failed_conditions == applicable_conditions \ passed_conditions
  IN [evaluated |-> TRUE,
      all_pass |-> failed_conditions = {},
      applicable_conditions |-> applicable_conditions,
      passed_conditions |-> passed_conditions,
      failed_conditions |-> failed_conditions]

NotEvaluated ==
  [evaluated |-> FALSE, all_pass |-> FALSE, applicable_conditions |-> {},
   passed_conditions |-> {}, failed_conditions |-> {}]

\* The loop body of calculate_type1_incentive_unified for one TYPE-1 row.
type1_unified_row(e, row) ==
  LET r == roster[e]
      position_category == get_type1_position_category(r.code_1st, r.position)
      condition_result ==
        evaluate_type1_conditions_unified(row.cond, position_category)
      continuous_months ==
        calculate_continuous_months_type1_unified(
          condition_result.all_pass, position_category, row.Previous_Incentive)
      incentive_result ==
        calculate_type1_incentive_by_category(
          position_category, continuous_months, config.cfa_certified[e],
          condition_result.all_pass)
  IN IF r.role_type # "TYPE-1"
          \/ position_category \in {"MANAGER_TYPE", "LINE_LEADER_TYPE"}
       THEN row
       ELSE [row EXCEPT
               !.Incentive = incentive_result.incentive_amount,
               !.Continuous_Months = continuous_months,
               !.Position_Category = position_category,
               !.condition_result = condition_result]

CalculateType1Unified ==
  /\ pc = "previous_loaded"
  /\ pc' = "type1_done"
  /\ month_data' = [e \in Emps |-> type1_unified_row(e, month_data[e])]
  /\ UNCHANGED <<fixed, subordinate_mapping>>

(***************************************************************************)
(* create_manager_subordinate_mapping                                      *)
(***************************************************************************)
RECURSIVE SumOver(_, _)
\* The sum of amount[x] over the employees x of S.
SumOver(S, amount) ==
  IF S = {}
    THEN 0
    ELSE LET x == CHOOSE y \in S : TRUE
         IN amount[x] + SumOver(S \ {x}, amount)

\* boss_data.iloc[0]: the first row whose Full Name is the given name; 0 when
\* no row has it.
FirstByName(name) ==
  LET rows == {r \in Emps : roster[r].full_name = name}
  IN IF rows = {} THEN 0 ELSE MinOf(rows)

\* The mapping boss id -> reports: every row with a boss name whose stop date
\* is not before the calculation month is appended to the list of the first
\* row bearing that name.  A boss without entry has the empty set (each
\* employee number is the key of one row, so a list holds no one twice).
create_manager_subordinate_mapping ==
  [b \in Emps |->
     {e \in Emps :
        /\ roster[e].boss_name # 0
        /\ roster[e].stop # "before"
        /\ FirstByName(roster[e].boss_name) = b}]

CreateManagerSubordinateMapping ==
  /\ pc = "type1_done"
  /\ pc' = "mapping_done"
  /\ subordinate_mapping' = create_manager_subordinate_mapping
  /\ UNCHANGED <<fixed, month_data>>

\* CompleteQIPCalculator.check_subordinates_continuous_fail.
check_subordinates_continuous_fail(manager_id) ==
  \E s \in subordinate_mapping[manager_id] :
    is_consecutive_failure_for_year(measured[s].continuous_fail, config.year)

(***************************************************************************)
(* calculate_line_leader_incentive_type1_only                              *)
(***************************************************************************)
\* The FINAL QIP POSITION NAME CODE values matching ^(E|L[1-5]|LL[AB]?)$.
LineLeaderCodes == {"E", "L1", "L2", "L3", "L4", "L5", "LL", "LLA", "LLB"}

line_leader_mask(e) ==
  /\ roster[e].role_type = "TYPE-1"
  /\ \/ /\ Contains(Upper(roster[e].position), "LINE")
        /\ Contains(Upper(roster[e].position), "LEADER")
     \/ roster[e].final_code \in LineLeaderCodes

\* attendance_fail of the line-leader, head and TYPE-2 group-leader stages.
attendance_fail(row) == \E i \in 1..4 : row.cond[i] = "FAIL"

\* The rollup percentage of the line-leader stage (0.12).
line_leader_pct == 12

\* A line-leader amount whose ratio is taken over every report of the mapping,
\* TYPE-2 and TYPE-3 reports included.
line_leader_incentive_all_reports(leader_id, md) ==
  LET subordinates == subordinate_mapping[leader_id]
      receiving == {s \in subordinates :
                      roster[s].role_type = "TYPE-1" /\ md[s].Incentive > 0}
  IN IF attendance_fail(md[leader_id]) THEN 0
     ELSE IF subordinates = {} THEN 0
     ELSE IF check_subordinates_continuous_fail(leader_id) THEN 0
     ELSE (SumOver(receiving, [s \in Emps |-> md[s].Incentive])
             * line_leader_pct * Cardinality(receiving))
            \div (100 * Cardinality(subordinates))

\* The amount of line leader leader_id given the table md as it stands when
\* its row is processed.  int(total * 0.12 * receiving / total_count) is the
\* floor of total * 12 * receiving / (100 * total_count).
line_leader_incentive(leader_id, md) ==
  LET subordinates == subordinate_mapping[leader_id]
      type1_subs == {s \in subordinates : roster[s].role_type = "TYPE-1"}
      receiving == {s \in type1_subs : md[s].Incentive > 0}
      total_count == Cardinality(type1_subs)
      receiving_count == Cardinality(receiving)
      total_sub_incentive == SumOver(receiving, [s \in Emps |-> md[s].Incentive])
      should_check_subordinates ==
        IF config.matrix_loaded
          THEN 7 \in matrix_applicable_conditions("TYPE-1", "LINE LEADER")
          ELSE TRUE
      has_continuous_fail ==
        should_check_subordinates /\ check_subordinates_continuous_fail(leader_id)
  IN IF attendance_fail(md[leader_id]) THEN 0
     ELSE IF subordinates = {} THEN 0
     ELSE IF has_continuous_fail THEN 0
     ELSE IF total_count > 0 /\ receiving_count > 0
       THEN (total_sub_incentive * line_leader_pct * receiving_count)
              \div (100 * total_count)
       ELSE 0

RECURSIVE line_leader_loop(_, _)
\* The loop over the masked rows in row order from row i on: a row whose
\* amount was already positive before the stage is skipped; the reports are
\* read from the table as the loop has left it.
line_leader_loop(i, md) ==
  IF i > MaxEmp
    THEN md
    ELSE line_leader_loop(i + 1,
           IF i \in Emps /\ line_leader_mask(i) /\ ~(month_data[i].Incentive > 0)
             THEN [md EXCEPT ![i].Incentive = line_leader_incentive(i, md)]
             ELSE md)

CalculateLineLeaderIncentive ==
  /\ pc = "mapping_done"
  /\ pc' = "line_leader_done"
  /\ month_data' = line_leader_loop(1, month_data)
  /\ UNCHANGED <<fixed, subordinate_mapping>>

(***************************************************************************)
(* _find_all_subordinate_line_leaders and the averages over line leaders   *)
(***************************************************************************)
RECURSIVE SortedSeq(_)
\* The employees of S in row order.
SortedSeq(S) ==
  IF S = {} THEN <<>> ELSE <<MinOf(S)>> \o SortedSeq(S \ {MinOf(S)})

IntermediatePositions ==
  {"(V) SUPERVISOR", "SUPERVISOR", "GROUP LEADER", "A.MANAGER",
   "ASSISTANT MANAGER"}

RECURSIVE bfs_line_leaders(_, _, _)
\* The while loop: the head of the queue is taken; every unvisited row whose
\* MST boss id is that employee or whose boss name is that employee's name is
\* marked visited; rows with a stop date or on pregnancy leave are dropped;
\* TYPE-1 rows titled LINE LEADER are collected; intermediate managers are
\* queued.
bfs_line_leaders(queue, visited, line_leaders) ==
  IF queue = <<>>
    THEN line_leaders
    ELSE
      LET current_id == Head(queue)
          current_name == roster[current_id].full_name
          subs == {e \in Emps \ visited :
                     \/ roster[e].mst_boss = current_id
                     \/ roster[e].boss_name # 0
                          /\ roster[e].boss_name = current_name}
          kept == {e \in subs : roster[e].stop = "" /\ ~roster[e].pregnant}
          found == {e \in kept : /\ roster[e].role_type = "TYPE-1"
                                 /\ roster[e].position = "LINE LEADER"}
          lower == {e \in kept : roster[e].position \in IntermediatePositions}
      IN bfs_line_leaders(Tail(queue) \o SortedSeq(lower),
                          visited \cup subs, line_leaders \cup found)

\* A traversal whose result starts out holding the manager itself.
find_line_leaders_with_self(manager_id) ==
  bfs_line_leaders(<<manager_id>>, {manager_id}, {manager_id})

find_all_subordinate_line_leaders(manager_id) ==
  bfs_line_leaders(<<manager_id>>, {manager_id}, {})

\* The receivers among a set of rows, their total and the truncated product
\* of their average with a multiplier given in tenths:
\* int((total / count) * tenths / 10).
Receivers(S, md) == {e \in S : md[e].Incentive > 0}

\* An average taken over every row of S, rows paid 0 included.
average_over_all_times(S, md, tenths) ==
  IF S = {}
    THEN 0
    ELSE (SumOver(Receivers(S, md), [e \in Emps |-> md[e].Incentive]) * tenths)
           \div (10 * Cardinality(S))

AverageTimes(S, md, tenths) ==
  LET rec == Receivers(S, md)
  IN IF rec = {}
       THEN 0
       ELSE (SumOver(rec, [e \in Emps |-> md[e].Incentive]) * tenths)
              \div (10 * Cardinality(rec))

\* int(mean) of the receivers, 0 without receivers.
IntMean(S, md) == AverageTimes(S, md, 10)

\* The TYPE-1 rows titled exactly LINE LEADER (the pooled fallback).
all_line_leaders ==
  {e \in Emps : roster[e].role_type = "TYPE-1" /\ roster[e].position = "LINE LEADER"}

\* int(avg_incentive * multiplier) with avg_incentive = int(mean).
fallback_incentive(md, tenths) == (IntMean(all_line_leaders, md) * tenths) \div 10

(***************************************************************************)
(* calculate_head_incentive                                                *)
(***************************************************************************)
head_mask(e) ==
  /\ roster[e].role_type = "TYPE-1"
  /\ \/ Contains(Upper(roster[e].position), "HEAD")
     \/ /\ Contains(Upper(roster[e].position), "GROUP")
        /\ Contains(Upper(roster[e].position), "LEADER")

head_incentive(head_id, md) ==
  LET line_leaders == find_all_subordinate_line_leaders(head_id)
  IN IF attendance_fail(md[head_id]) THEN 0
     ELSE IF Receivers(line_leaders, md) # {}
       THEN AverageTimes(line_leaders, md, 20)
       ELSE fallback_incentive(md, 20)

\* The rows written here are not read by head_incentive (a row titled
\* LINE LEADER is not in head_mask), so the row order does not matter.
CalculateHeadIncentive ==
  /\ pc = "line_leader_done"
  /\ pc' = "head_done"
  /\ month_data' =
       [e \in Emps |->
          IF head_mask(e) /\ ~(month_data[e].Incentive > 0)
            THEN [month_data[e] EXCEPT !.Incentive = head_incentive(e, month_data)]
            ELSE month_data[e]]
  /\ UNCHANGED <<fixed, subordinate_mapping>>

(***************************************************************************)
(* calculate_managers_by_manual_logic_fixed                                *)
(***************************************************************************)
\* manager_configs: position names (exact match) and multiplier, in tenths.
manager_multiplier(position) ==
  CASE position \in {"S.MANAGER", "SENIOR MANAGER"} -> 40
    [] position = "MANAGER" -> 35
    [] position \in {"A.MANAGER", "ASSISTANT MANAGER"} -> 30
    [] position \in {"(V) SUPERVISOR", "VICE SUPERVISOR", "V.SUPERVISOR"} -> 25
    [] position = "SUPERVISOR" -> 25
    [] OTHER -> 0

manager_mask(e) ==
  roster[e].role_type = "TYPE-1" /\ manager_multiplier(roster[e].position) > 0

\* The amount of one manager row.  The position's incentive_amount entry of
\* the matrix is taken as absent (calculation_method '', min 0), which sends
\* the row through the line-leader average with the multiplier of
\* manager_configs.
\* A managers' stage that pays 0 when no line leader is found.
manager_incentive_without_fallback(manager_id, md) ==
  LET row == md[manager_id]
      all_conditions_pass ==
        /\ row.cond[1] \in {"PASS", "NOT_APPLICABLE"}
        /\ row.cond[2] = "PASS"
        /\ row.cond[3] = "PASS"
        /\ row.cond[4] \in {"PASS", "NOT_APPLICABLE"}
      line_leaders == find_all_subordinate_line_leaders(manager_id)
  IN IF ~all_conditions_pass \/ line_leaders = {}
       THEN 0
       ELSE AverageTimes(line_leaders, md,
                         manager_multiplier(roster[manager_id].position))

manager_incentive(manager_id, md) ==
  LET row == md[manager_id]
      condition_1_pass == row.cond[1] \in {"PASS", "NOT_APPLICABLE"}
      condition_2_pass == row.cond[2] = "PASS"
      condition_3_pass == row.cond[3] = "PASS"
      condition_4_pass == row.cond[4] \in {"PASS", "NOT_APPLICABLE"}
      all_conditions_pass ==
        condition_1_pass /\ condition_2_pass /\ condition_3_pass /\ condition_4_pass
      multiplier == manager_multiplier(roster[manager_id].position)
      line_leaders == find_all_subordinate_line_leaders(manager_id)
  IN IF ~all_conditions_pass THEN 0
     ELSE IF line_leaders # {}
       THEN AverageTimes(line_leaders, md, multiplier)
       ELSE fallback_incentive(md, multiplier)

\* The rows written here are not read by manager_incentive (a row titled
\* LINE LEADER is in no manager_configs entry), so the order does not matter.
CalculateManagersIncentive ==
  /\ pc = "head_done"
  /\ pc' = "managers_done"
  /\ month_data' =
       [e \in Emps |->
          IF manager_mask(e) /\ ~(month_data[e].Incentive > 0)
            THEN [month_data[e] EXCEPT !.Incentive = manager_incentive(e, month_data)]
            ELSE month_data[e]]
  /\ UNCHANGED <<fixed, subordinate_mapping>>

(***************************************************************************)
(* calculate_type2_incentive                                               *)
(***************************************************************************)
\* The default amount of a TYPE-2 line leader.
type2_line_leader_default == 107360

\* _create_type1_reference_map, read at the upper-cased title u: int(mean) of
\* the TYPE-1 receivers of a title; titles are taken in order of first
\* appearance and a later title with the same upper-casing overwrites the
\* entry.  0 stands for an absent key.
type1_reference(u, md) ==
  LET rows(p) == {e \in Emps : roster[e].role_type = "TYPE-1" /\ roster[e].position = p}
      titles == {p \in PositionNames :
                   Upper(p) = u /\ Receivers(rows(p), md) # {}}
      last == CHOOSE p \in titles :
                \A q \in titles : MinOf(rows(q)) <= MinOf(rows(p))
  IN IF titles = {} THEN 0 ELSE IntMean(rows(last), md)

type2_line_leaders ==
  {e \in Emps : /\ roster[e].role_type = "TYPE-2"
                /\ Contains(Upper(roster[e].position), "LINE")
                /\ Contains(Upper(roster[e].position), "LEADER")}

type1_line_leaders_by_title ==
  {e \in Emps : /\ roster[e].role_type = "TYPE-1"
                /\ Contains(Upper(roster[e].position), "LINE")
                /\ Contains(Upper(roster[e].position), "LEADER")}

\* calculate_type2_supervisor_independent on the table as the loop left it.
type2_supervisor_independent(md) ==
  LET pool == IF type2_line_leaders # {}
                THEN type2_line_leaders ELSE type1_line_leaders_by_title
  IN AverageTimes(pool, md, 25)

\* The amount of one TYPE-2 row of calculate_type2_non_group_leaders.  row is
\* the row as it was when the loop started, ref the reference map built
\* before the loop, md the table as the loop has left it.  The mapping file
\* type2_position_mapping.json is taken as absent (mapped position '').
type2_non_group_incentive(e, row, ref, md) ==
  LET position_upper == Upper(roster[e].position)
  IN IF row.conditions_pass_rate < 100 THEN 0
     ELSE IF roster[e].stop = "before" THEN 0
     ELSE IF Contains(position_upper, "LINE") /\ Contains(position_upper, "LEADER")
       THEN type2_line_leader_default
     ELSE IF Contains(position_upper, "SUPERVISOR")
       THEN IF ref[position_upper] > 0
              THEN ref[position_upper]
              ELSE type2_supervisor_independent(md)
     ELSE ref[position_upper]

\* The per-row messages of calculate_type2_non_group_leaders: the failed
\* attendance conditions of a row below 100%, and the matching failure of a
\* title that is in no reference.
type2_diagnostics(e, row, ref) ==
  LET position_upper == Upper(roster[e].position)
  IN IF row.conditions_pass_rate < 100
       THEN IF \E i \in 1..4 : row.cond[i] = "FAIL"
              THEN {"conditions_not_met"} ELSE {}
     ELSE IF roster[e].stop = "before" THEN {}
     ELSE IF Contains(position_upper, "LINE") /\ Contains(position_upper, "LEADER")
       THEN {}
     ELSE IF Contains(position_upper, "SUPERVISOR") THEN {}
     ELSE IF ref[position_upper] = 0 THEN {"matching_failure"}
     ELSE {}

type2_group_mask(e) ==
  /\ roster[e].role_type = "TYPE-2"
  /\ roster[e].position = "GROUP LEADER" \/ roster[e].final_code = "QA3A"

RECURSIVE type2_non_group_loop(_, _, _)
type2_non_group_loop(i, ref, md) ==
  IF i > MaxEmp
    THEN md
    ELSE type2_non_group_loop(i + 1, ref,
           IF /\ i \in Emps
              /\ roster[i].role_type = "TYPE-2"
              /\ ~(month_data[i].Incentive > 0)
              /\ Upper(roster[i].position) # "GROUP LEADER"
              /\ roster[i].final_code # "QA3A"
             THEN [md EXCEPT
                     ![i].Incentive =
                        type2_non_group_incentive(i, month_data[i], ref, md),
                     ![i].diagnostics =
                        type2_diagnostics(i, month_data[i], ref)]
             ELSE md)

\* calculate_type2_group_leaders_final on the table md left by the first step:
\* every masked row is recomputed, whatever it held.
type2_group_leaders_final(md) ==
  LET type1_avg2 == AverageTimes(all_line_leaders, md, 20)
      type2_avg2 == AverageTimes(type2_line_leaders, md, 20)
      incentive(e) ==
        IF attendance_fail(md[e]) THEN 0
        ELSE IF Receivers(all_line_leaders, md) # {} THEN type1_avg2
        ELSE IF Receivers(type2_line_leaders, md) # {} THEN type2_avg2
        ELSE type2_line_leader_default * 2
  IN [e \in Emps |->
        IF type2_group_mask(e)
          THEN [md[e] EXCEPT !.Incentive = incentive(e)]
          ELSE md[e]]

CalculateType2Incentive ==
  /\ pc = "managers_done"
  /\ pc' = "type2_done"
  /\ LET ref == [u \in {Upper(p) : p \in PositionNames} |->
                   type1_reference(u, month_data)]
     IN month_data' =
          type2_group_leaders_final(type2_non_group_loop(1, ref, month_data))
  /\ UNCHANGED <<fixed, subordinate_mapping>>

(***************************************************************************)
(* calculate_type3_incentive                                               *)
(***************************************************************************)
CalculateType3Incentive ==
  /\ pc = "type2_done"
  /\ pc' = "type3_done"
  /\ month_data' =
       [e \in Emps |->
          IF roster[e].role_type = "TYPE-3"
            THEN [month_data[e] EXCEPT !.Incentive = 0]
            ELSE month_data[e]]
  /\ UNCHANGED <<fixed, subordinate_mapping>>

(***************************************************************************)
(* apply_talent_pool_bonus                                                 *)
(***************************************************************************)
\* config.talent_pool[e] is the monthly_bonus of an active member entry whose
\* period holds the calculation month, 0 without such an entry.  The bonus is
\* added to the amount unless the row's stop date is before the month.
ApplyTalentPoolBonus ==
  /\ pc = "type3_done"
  /\ pc' = "done"
  /\ month_data' =
       [e \in Emps |->
          IF config.talent_pool[e] > 0 /\ roster[e].stop # "before"
            THEN [month_data[e] EXCEPT
                    !.Talent_Pool_Bonus = config.talent_pool[e],
                    !.Incentive = month_data[e].Incentive + config.talent_pool[e]]
            ELSE month_data[e]]
  /\ UNCHANGED <<fixed, subordinate_mapping>>

(***************************************************************************)
(* Initial table (after prepare_integrated_data).                          *)
(***************************************************************************)
InitialRow ==
  [cond |-> [i \in 1..10 |-> "MISSING"],
   conditions_applicable |-> NaN,
   conditions_passed |-> NaN,
   conditions_pass_rate |-> NaN,
   Previous_Incentive |-> NaN,
   Incentive |-> 0,
   Continuous_Months |-> NaN,
   Position_Category |-> "",
   condition_result |-> NotEvaluated,
   Talent_Pool_Bonus |-> 0,
   diagnostics |-> {}]

NominalMeasured ==
  [attendance_rate |-> 88, total_days |-> 22, approved_leave |-> 0,
   unapproved_absence |-> 2, actual_working_days |-> 12, aql_fail |-> 0,
   continuous_fail |-> "NO", area_reject_rate |-> 2, prs_pass_rate |-> 95,
   prs_qty |-> 100]

MeasuredFields == DOMAIN NominalMeasured

\* Values offered for the measured columns: on each side of every threshold,
\* and missing where the merge can leave the cell empty.
AllMeasured ==
  [attendance_rate : {87, 88, NaN},
   total_days : {0, 22},
   approved_leave : {0, 22},
   unapproved_absence : {2, 3, NaN},
   actual_working_days : {0, 11, 12},
   aql_fail : {0, 1},
   continuous_fail : ContinuousFailTags,
   area_reject_rate : {2, 3, NaN},
   prs_pass_rate : {94, 95, NaN},
   prs_qty : {99, 100, NaN}]

Deviations(m) == {f \in MeasuredFields : m[f] # NominalMeasured[f]}

\* No routine is being exercised on its own while a table is processed.
NoRoutine ==
  /\ fn_pc = "no_call"
  /\ fn_in = <<>>
  /\ fn_out = NoCall

(***************************************************************************)
(* SpecT1: one TYPE-1 row through condition evaluation, the loading of     *)
(* Previous_Incentive and the unified TYPE-1 stage.                        *)
(***************************************************************************)
\* How many measured columns of the row may differ from the nominal row.
MaxDeviations == 2

T1Measured == {m \in AllMeasured : Cardinality(Deviations(m)) <= MaxDeviations}

\* Position name and 1ST code of the row; cfa is the employee's registration
\* in the CFA list, area the employees of an auditor's area.
T1Positions ==
  {<<"ASSEMBLY INSPECTOR", "A">>, <<"AQL INSPECTOR", "A">>,
   <<"MODEL MASTER", "D">>, <<"AUDIT & TRAINING TEAM", "A">>,
   <<"QA TEAM", "A">>, <<"QA TEAM", "D">>, <<"LINE LEADER", "E">>}

T1Rows ==
  {[role_type |-> "TYPE-1", position |-> p[1], code_1st |-> p[2],
    final_code |-> p[2], full_name |-> 1, boss_name |-> 0, mst_boss |-> 0,
    stop |-> "", pregnant |-> FALSE, area |-> a] :
     p \in T1Positions, a \in {{}, {1}}}

\* Previous paid amounts of the row: absent from the file, zero, table
\* amounts, an amount next to a table amount, and 3-part totals.
T1Previous == {NaN, 0, 150000, 260000, 300000, 1000000, 1350000, 2600000}

InitT1 ==
  /\ pc = "start"
  /\ roster \in {[e \in {1} |-> r] :
                   r \in {x \in T1Rows :
                            x.area # {} => Contains(x.position, "AUDIT")}}
  /\ measured \in {[e \in {1} |-> m] : m \in T1Measured}
  /\ prev_file \in {[e \in {1} |-> a] : a \in T1Previous}
  /\ config \in {[year |-> y, matrix_loaded |-> ml,
                  cfa_certified |-> [e \in {1} |-> c],
                  talent_pool |-> [e \in {1} |-> 0]] :
                   y \in {2025, 2026}, ml \in BOOLEAN,
                   c \in {b \in BOOLEAN :
                            b => roster[1].position = "AQL INSPECTOR"}}
  /\ month_data = [e \in {1} |-> InitialRow]
  /\ subordinate_mapping = [e \in {1} |-> {}]
  /\ NoRoutine

NextT1 ==
  \/ AddConditionEvaluation
  \/ LoadPreviousIncentiveEarly
  \/ CalculateType1Unified

SpecT1 == InitT1 /\ [][NextT1]_vars

(***************************************************************************)
(* SpecRun: calculate_all_incentives over a line leader and its reports.   *)
(* The tables offered are the nominal table below with up to               *)
(* MaxRunDeviations cells changed.                                         *)
(***************************************************************************)
\* Rows 2 .. NumReports + 1 are the reports of row 1 in the nominal table.
NumReports == 2

\* How many cells of the table (or settings of the run) may differ from the
\* nominal ones.
MaxRunDeviations == 2

RunEmps == 1..(NumReports + 1)

\* Role type, title and position code of a row.
KindRow(kind) ==
  CASE kind = "T1_LINE_LEADER" ->
         [role_type |-> "TYPE-1", position |-> "LINE LEADER", code |-> "E"]
    [] kind = "T1_SUPERVISOR" ->
         [role_type |-> "TYPE-1", position |-> "SUPERVISOR", code |-> "G"]
    [] kind = "T2_INSPECTOR" ->
         [role_type |-> "TYPE-2", position |-> "ASSEMBLY INSPECTOR", code |-> "A"]
    [] kind = "T1_GROUP_LEADER" ->
         [role_type |-> "TYPE-1", position |-> "GROUP LEADER", code |-> "F"]
    [] kind = "T2_QA_TEAM" ->
         [role_type |-> "TYPE-2", position |-> "QA TEAM", code |-> "A"]
    [] OTHER ->
         [role_type |-> "TYPE-1", position |-> "ASSEMBLY INSPECTOR", code |-> "A"]

\* The nominal table: row 1 is a TYPE-1 line leader, the other rows are TYPE-1
\* assembly inspectors reporting to it, every measure passes, the inspectors
\* were paid the month-1 amount in the previous period.
NominalCells(e) ==
  [kind |-> IF e = 1 THEN "T1_LINE_LEADER" ELSE "T1_INSPECTOR",
   boss_name |-> IF e = 1 THEN 0 ELSE 1,
   mst_boss |-> IF e = 1 THEN 0 ELSE 1,
   stop |-> "",
   pregnant |-> FALSE,
   attendance_rate |-> 88,
   total_days |-> 22,
   unapproved_absence |-> 2,
   aql_fail |-> 0,
   continuous_fail |-> "NO",
   prev |-> IF e = 1 THEN 0 ELSE 150000,
   talent |-> 0]

NominalSettings == [year |-> 2025, matrix_loaded |-> TRUE]

\* The other values offered for a cell of row e.
Alternatives(e, f) ==
  CASE f = "kind" ->
         {"T1_LINE_LEADER", "T1_INSPECTOR", "T2_INSPECTOR", "T1_SUPERVISOR",
          "T1_GROUP_LEADER", "T2_QA_TEAM"} \ {NominalCells(e).kind}
    [] f = "boss_name" ->
         {b \in {0, 2, 3} : b # e /\ b \in RunEmps \cup {0}}
           \ {NominalCells(e).boss_name}
    [] f = "mst_boss" -> {0} \ {NominalCells(e).mst_boss}
    [] f = "stop" -> {"before", "during"}
    [] f = "pregnant" -> {TRUE}
    [] f = "attendance_rate" -> {87}
    [] f = "total_days" -> {0}
    [] f = "unapproved_absence" -> {NaN}
    [] f = "aql_fail" -> {1}
    [] f = "continuous_fail" -> {"YES_3MONTHS", "YES_2MONTHS_DEC_JAN"}
    [] f = "prev" -> {0, 150000} \ {NominalCells(e).prev}
    [] OTHER -> {150000}

CellFields == DOMAIN NominalCells(1)

AllDeviations ==
  {[e |-> d[1], f |-> d[2], v |-> d[3]] :
     d \in UNION {UNION {{<<e, f, v>> : v \in Alternatives(e, f)} :
                           f \in CellFields} : e \in RunEmps}}
  \cup {[e |-> 0, f |-> "year", v |-> 2026],
        [e |-> 0, f |-> "matrix_loaded", v |-> FALSE]}

RECURSIVE SetToSeq(_)
\* The elements of S in some fixed order.
SetToSeq(S) ==
  IF S = {}
    THEN <<>>
    ELSE LET x == CHOOSE y \in S : TRUE IN <<x>> \o SetToSeq(S \ {x})

\* The ways of picking at most k deviations out of the list all, no two of
\* them on the same cell: pick[i] = 0 picks nothing, and the picks are listed
\* in increasing position so that every set is picked once.
DeviationPicks(all, k) ==
  {pick \in [1..k -> 0..Len(all)] :
     /\ \A i \in 1..(k - 1) : pick[i] = 0 \/ pick[i] < pick[i + 1]
     /\ \A i, j \in 1..k :
          (i < j /\ pick[i] # 0)
          => ~(all[pick[i]].e = all[pick[j]].e /\ all[pick[i]].f = all[pick[j]].f)}

PickedDeviations(all, pick) ==
  {all[pick[i]] : i \in {j \in DOMAIN pick : pick[j] # 0}}

DeviationList == SetToSeq(AllDeviations)

\* The value of cell f of row e (row 0: the settings) under deviations D.
Cell(D, e, f) ==
  IF \E d \in D : d.e = e /\ d.f = f
    THEN (CHOOSE d \in D : d.e = e /\ d.f = f).v
    ELSE IF e = 0 THEN NominalSettings[f] ELSE NominalCells(e)[f]

\* _set_improved_default_values: a row whose stop date is before the
\* calculation month has Actual Working Days = 0.
RunTable(D) ==
  /\ roster =
       [e \in RunEmps |->
          LET k == KindRow(Cell(D, e, "kind"))
          IN [role_type |-> k.role_type, position |-> k.position,
              code_1st |-> k.code, final_code |-> k.code, full_name |-> e,
              boss_name |-> Cell(D, e, "boss_name"),
              mst_boss |-> Cell(D, e, "mst_boss"),
              stop |-> Cell(D, e, "stop"),
              pregnant |-> Cell(D, e, "pregnant"), area |-> {}]]
  /\ measured =
       [e \in RunEmps |->
          [NominalMeasured EXCEPT
             !.attendance_rate = Cell(D, e, "attendance_rate"),
             !.total_days = Cell(D, e, "total_days"),
             !.unapproved_absence = Cell(D, e, "unapproved_absence"),
             !.aql_fail = Cell(D, e, "aql_fail"),
             !.continuous_fail = Cell(D, e, "continuous_fail"),
             !.actual_working_days =
                IF Cell(D, e, "stop") = "before" THEN 0 ELSE 12]]
  /\ prev_file = [e \in RunEmps |-> Cell(D, e, "prev")]
  /\ config = [year |-> Cell(D, 0, "year"),
               matrix_loaded |-> Cell(D, 0, "matrix_loaded"),
               cfa_certified |-> [e \in RunEmps |-> FALSE],
               talent_pool |-> [e \in RunEmps |-> Cell(D, e, "talent")]]

InitRun ==
  /\ pc = "start"
  /\ \E pick \in DeviationPicks(DeviationList, MaxRunDeviations) :
       RunTable(PickedDeviations(DeviationList, pick))
  /\ month_data = [e \in RunEmps |-> InitialRow]
  /\ subordinate_mapping = [e \in RunEmps |-> {}]
  /\ NoRoutine

\* The stages of calculate_all_incentives in call order.
NextRun ==
  \/ AddConditionEvaluation
  \/ LoadPreviousIncentiveEarly
  \/ CalculateType1Unified
  \/ CreateManagerSubordinateMapping
  \/ CalculateLineLeaderIncentive
  \/ CalculateHeadIncentive
  \/ CalculateManagersIncentive
  \/ CalculateType2Incentive
  \/ CalculateType3Incentive
  \/ ApplyTalentPoolBonus

SpecRun == InitRun /\ [][NextRun]_vars

(***************************************************************************)
(* SpecHier: calculate_all_incentives over a manager, the line leaders     *)
(* below it and one inspector under each line leader.  The tables offered  *)
(* are the nominal hierarchy with up to MaxRunDeviations cells changed.    *)
(***************************************************************************)
\* Row 1 is the manager, rows 2 and 3 its line leaders, and rows 4 and 5 the
\* inspectors reporting to line leaders 2 and 3.
HierLeaders == {2, 3}

HierInspectors == {4, 5}

HierEmps == {1} \cup HierLeaders \cup HierInspectors

NominalHierCells(e) ==
  [position |-> IF e = 1 THEN "S.MANAGER"
                ELSE IF e \in HierLeaders THEN "LINE LEADER"
                ELSE "ASSEMBLY INSPECTOR",
   boss |-> IF e = 1 THEN 0 ELSE IF e \in HierLeaders THEN 1 ELSE e - 2,
   stop |-> "",
   pregnant |-> FALSE,
   attendance_rate |-> 88,
   prev |-> IF e \in HierInspectors THEN 150000 ELSE 0]

\* A boss name that no row of the table bears.
UnknownName == 9

\* The other values offered for a cell of row e.  A boss cell may be empty,
\* bear a name nobody has, point at the row itself or close a cycle.
HierAlternatives(e, f) ==
  CASE f = "position" ->
         IF e = 1 THEN {"MANAGER", "A.MANAGER", "SUPERVISOR", "GROUP LEADER"}
         ELSE IF e \in HierLeaders
           THEN {"MANAGER", "SUPERVISOR", "GROUP LEADER", "ASSEMBLY INSPECTOR"}
           ELSE {"LINE LEADER"}
    [] f = "boss" ->
         IF e = 1 THEN {1, 2}
         ELSE IF e \in HierLeaders
           THEN {0, UnknownName, e, IF e = 3 THEN 2 ELSE 3}
           ELSE {0, UnknownName, 1}
    [] f = "stop" -> IF e = 1 THEN {} ELSE {"before", "during"}
    [] f = "pregnant" -> IF e \in HierLeaders THEN {TRUE} ELSE {}
    [] f = "attendance_rate" -> {87}
    [] OTHER -> IF e \in HierInspectors THEN {0} ELSE {}

HierFields == DOMAIN NominalHierCells(1)

AllHierDeviations ==
  {[e |-> d[1], f |-> d[2], v |-> d[3]] :
     d \in UNION {UNION {{<<e, f, v>> : v \in HierAlternatives(e, f)} :
                           f \in HierFields} : e \in HierEmps}}

HierDeviationList == SetToSeq(AllHierDeviations)

HierCell(D, e, f) ==
  IF \E d \in D : d.e = e /\ d.f = f
    THEN (CHOOSE d \in D : d.e = e /\ d.f = f).v
    ELSE NominalHierCells(e)[f]

\* Every row is TYPE-1; the boss is given both as MST boss id and as boss
\* name; a row whose stop date is before the calculation month has Actual
\* Working Days = 0 (_set_improved_default_values).
HierTable(D) ==
  /\ roster =
       [e \in HierEmps |->
          LET title == HierCell(D, e, "position")
              code == IF title = "LINE LEADER" THEN "E" ELSE "A"
          IN [role_type |-> "TYPE-1", position |-> title,
              code_1st |-> code, final_code |-> code, full_name |-> e,
              boss_name |-> HierCell(D, e, "boss"),
              mst_boss |-> HierCell(D, e, "boss"),
              stop |-> HierCell(D, e, "stop"),
              pregnant |-> HierCell(D, e, "pregnant"), area |-> {}]]
  /\ measured =
       [e \in HierEmps |->
          [NominalMeasured EXCEPT
             !.attendance_rate = HierCell(D, e, "attendance_rate"),
             !.actual_working_days =
                IF HierCell(D, e, "stop") = "before" THEN 0 ELSE 12]]
  /\ prev_file = [e \in HierEmps |-> HierCell(D, e, "prev")]
  /\ config = [year |-> 2025,
               matrix_loaded |-> TRUE,
               cfa_certified |-> [e \in HierEmps |-> FALSE],
               talent_pool |-> [e \in HierEmps |-> 0]]

InitHier ==
  /\ pc = "start"
  /\ \E pick \in DeviationPicks(HierDeviationList, MaxRunDeviations) :
       HierTable(PickedDeviations(HierDeviationList, pick))
  /\ month_data = [e \in HierEmps |-> InitialRow]
  /\ subordinate_mapping = [e \in HierEmps |-> {}]
  /\ NoRoutine

SpecHier == InitHier /\ [][NextRun]_vars

(***************************************************************************)
(* SpecBfs: _find_all_subordinate_line_leaders step by step, one action    *)
(* per iteration of its while loop, over the hierarchy tables of SpecHier. *)
(* fn_in holds the manager the traversal starts from, fn_out the queue,    *)
(* the visited set and the list of line leaders collected so far.          *)
(***************************************************************************)
\* A traversal whose rows are taken whether or not they were visited.
direct_subordinates_revisited(current_id, visited) ==
  {e \in Emps :
     \/ roster[e].mst_boss = current_id
     \/ roster[e].boss_name # 0
          /\ roster[e].boss_name = roster[current_id].full_name}

\* The rows the for loop of one iteration takes as subordinates of
\* current_id: not yet visited, and naming current_id as MST boss or as boss.
direct_subordinates(current_id, visited) ==
  {e \in Emps \ visited :
     \/ roster[e].mst_boss = current_id
     \/ roster[e].boss_name # 0
          /\ roster[e].boss_name = roster[current_id].full_name}

\* Only the cells the traversal reads are varied: titles, bosses, and for
\* the manager and the line leaders a stop date or pregnancy leave.
TraversalDeviations ==
  {d \in AllHierDeviations :
     \/ d.f = "position"
     \/ d.f = "boss" /\ d.e \notin HierInspectors
     \/ d.f = "stop" /\ d.v = "during" /\ d.e \notin HierInspectors
     \/ d.f = "pregnant"}

TraversalDeviationList == SetToSeq(TraversalDeviations)

InitBfs ==
  /\ pc = "traversal"
  /\ \E pick \in DeviationPicks(TraversalDeviationList, MaxRunDeviations) :
       HierTable(PickedDeviations(TraversalDeviationList, pick))
  /\ month_data = [e \in HierEmps |-> InitialRow]
  /\ subordinate_mapping = [e \in HierEmps |-> {}]
  /\ NoRoutine

\* queue = [(manager_id_int, manager_name)]; visited.add(manager_id_int)
CallFindLineLeaders ==
  /\ pc = "traversal"
  /\ fn_pc = "no_call"
  /\ \E manager_id \in Emps :
       /\ fn_in' = <<manager_id>>
       /\ fn_out' = [queue |-> <<manager_id>>, visited |-> {manager_id},
                     line_leaders |-> <<>>]
  /\ fn_pc' = "bfs_loop"
  /\ UNCHANGED tbl_vars

\* One iteration of `while queue`.  The list of line leaders cannot outgrow
\* the table by more than the rows of one pass.
BfsStep ==
  /\ fn_pc = "bfs_loop"
  /\ fn_out.queue # <<>>
  /\ Len(fn_out.line_leaders) <= Cardinality(Emps)
  /\ Len(fn_out.queue) <= Cardinality(Emps)
  /\ LET current_id == Head(fn_out.queue)
         subs == direct_subordinates(current_id, fn_out.visited)
         kept == {e \in subs : roster[e].stop = "" /\ ~roster[e].pregnant}
         found == {e \in kept : /\ roster[e].role_type = "TYPE-1"
                                /\ roster[e].position = "LINE LEADER"}
         lower == {e \in kept : roster[e].position \in IntermediatePositions}
     IN fn_out' = [queue |-> Tail(fn_out.queue) \o SortedSeq(lower),
                   visited |-> fn_out.visited \cup subs,
                   line_leaders |-> fn_out.line_leaders \o SortedSeq(found)]
  /\ UNCHANGED <<fn_pc, fn_in, tbl_vars>>

\* The queue is empty: return line_leaders.
BfsReturn ==
  /\ fn_pc = "bfs_loop"
  /\ fn_out.queue = <<>>
  /\ fn_pc' = "returned"
  /\ UNCHANGED <<fn_in, fn_out, tbl_vars>>

NextBfs == CallFindLineLeaders \/ BfsStep \/ BfsReturn

SpecBfs == InitBfs /\ [][NextBfs]_vars

\* The loop is single-threaded: an iteration that can run does run.
SpecBfsLive == SpecBfs /\ WF_vars(BfsStep) /\ WF_vars(BfsReturn)

(***************************************************************************)
(* SpecAql: process_aql_conditions_with_history for one employee.  A       *)
(* period is a calendar month, counted as year * 12 + month - 1.  fn_in    *)
(* holds the calculation period and the audit-history files, fn_out what   *)
(* the routine has computed so far.                                        *)
(***************************************************************************)
PeriodOf(year, month) == year * 12 + month - 1

MonthOf(period) == (period % 12) + 1

\* A file that does not exist, and the result None of a failed load.
AbsentFile == [present |-> FALSE, rows |-> {}]

NoFrame == [loaded |-> FALSE, rows |-> {}]

\* The audit records offered for the file of a period: a failed and a passed
\* audit of the period, and a failed audit whose MONTH field is the month
\* before.
OwnFail(period) == [month |-> MonthOf(period), result |-> "FAIL"]

OwnPass(period) == [month |-> MonthOf(period), result |-> "PASS"]

OtherFail(period) == [month |-> MonthOf(period - 1), result |-> "FAIL"]

FileChoices(period) ==
  {AbsentFile}
  \cup {[present |-> TRUE, rows |-> r] :
          r \in {{}, {OwnFail(period)}, {OwnPass(period)},
                 {OtherFail(period)},
                 {OwnFail(period), OtherFail(period)},
                 {OwnPass(period), OtherFail(period)}}}

\* The file of a period in the AQL history folder.
FileAt(files, period) ==
  IF period \in DOMAIN files THEN files[period] ELSE AbsentFile

\* load_aql_history: the rows of the file; when the MONTH column holds more
\* than one month only the rows of the file's own month are kept, silently;
\* None when the file is missing or no row is left.
load_aql_history(files, period) ==
  LET file == FileAt(files, period)
      unique_months == {r.month : r \in file.rows}
      kept == {r \in file.rows : r.month = MonthOf(period)}
  IN IF ~file.present THEN NoFrame
     ELSE IF Cardinality(unique_months) > 1
       THEN IF kept = {} THEN NoFrame ELSE [loaded |-> TRUE, rows |-> kept]
       ELSE [loaded |-> TRUE, rows |-> file.rows]

\* The "Auto-filtered: removed N records" lines get_latest_three_months
\* prints: for every file whose loaded frame still holds more than one month.
removed_reports(files) ==
  {[period |-> q,
    removed |-> Cardinality(load_aql_history(files, q).rows)
                  - Cardinality({r \in load_aql_history(files, q).rows :
                                   r.month = MonthOf(q)})] :
     q \in {x \in DOMAIN files :
              /\ load_aql_history(files, x).loaded
              /\ load_aql_history(files, x).rows # {}
              /\ Cardinality({r.month : r \in load_aql_history(files, x).rows}) > 1}}

\* valid_months of get_latest_three_months: the files that load, are not
\* empty and whose MONTH column agrees with the file name.
valid_months(files) ==
  {q \in DOMAIN files :
     LET df == load_aql_history(files, q)
         own == {r \in df.rows : r.month = MonthOf(q)}
         rows == IF Cardinality({r.month : r \in df.rows}) > 1 THEN own ELSE df.rows
     IN /\ df.loaded
        /\ df.rows # {}
        /\ rows # {}
        /\ \A r \in rows : r.month = MonthOf(q)}

RECURSIVE LatestOf(_, _)
\* The n latest periods of S (all of S when it has fewer), as a set.
LatestOf(S, n) ==
  IF n = 0 \/ S = {}
    THEN {}
    ELSE LET last == CHOOSE x \in S : \A y \in S : y <= x
         IN {last} \cup LatestOf(S \ {last}, n - 1)

\* get_latest_three_months: the three latest valid periods not after the
\* calculation period, in ascending order.
get_latest_three_months(files, calc) ==
  SortedSeq(LatestOf({k \in valid_months(files) : k <= calc}, 3))

\* The months used when fewer than three periods were selected.
default_months == <<PeriodOf(2025, 5), PeriodOf(2025, 6), PeriodOf(2025, 7)>>

CalcPeriods == {PeriodOf(2025, 7), PeriodOf(2026, 1)}

InitAql ==
  /\ pc = "aql_history"
  /\ config = <<>>
  /\ roster = <<>>
  /\ measured = <<>>
  /\ prev_file = <<>>
  /\ month_data = <<>>
  /\ subordinate_mapping = <<>>
  /\ fn_pc = "no_call"
  /\ fn_out = NoCall
  /\ \E calc \in CalcPeriods :
       \E past \in [(calc - 3)..calc -> UNION {FileChoices(q) : q \in (calc - 3)..calc}] :
         \E future \in {AbsentFile, [present |-> TRUE, rows |-> {OwnFail(calc + 1)}]} :
           /\ \A q \in DOMAIN past : past[q] \in FileChoices(q)
           /\ fn_in = [calc |-> calc,
                       files |-> [q \in (calc - 3)..(calc + 1) |->
                                    IF q = calc + 1 THEN future ELSE past[q]]]

\* Step 1: the three months are selected, or the default months are taken.
SelectLatestMonths ==
  /\ pc = "aql_history"
  /\ fn_pc = "no_call"
  /\ LET selected == get_latest_three_months(fn_in.files, fn_in.calc)
     IN fn_out' = [latest_months |-> IF Len(selected) < 3 THEN default_months
                                     ELSE selected,
                   selected |-> selected,
                   reported |-> removed_reports(fn_in.files)]
  /\ fn_pc' = "months_selected"
  /\ UNCHANGED <<fn_in, tbl_vars>>

\* Step 2: the three files are loaded; with fewer than three frames the
\* routine hands over to process_aql_conditions.
LoadThreeMonths ==
  /\ fn_pc = "months_selected"
  /\ LET dfs == [i \in 1..3 |-> load_aql_history(fn_in.files, fn_out.latest_months[i])]
     IN IF \A i \in 1..3 : dfs[i].loaded
          THEN /\ fn_pc' = "history_loaded"
               /\ fn_out' = [latest_months |-> fn_out.latest_months,
                             selected |-> fn_out.selected,
                             reported |-> fn_out.reported,
                             month_dfs |-> [i \in 1..3 |-> dfs[i].rows]]
          ELSE /\ fn_pc' = "legacy"
               /\ fn_out' = fn_out
  /\ UNCHANGED <<fn_in, tbl_vars>>

\* get_failures: the number of FAIL rows of the employee in a frame.
get_failures(rows) == Cardinality({r \in rows : r.result = "FAIL"})

\* A classification that takes the two earliest months for the 2-month tag.
continuous_fail_tag_earliest_two(month_fail, latest_months) ==
  IF month_fail[1] /\ month_fail[2] /\ month_fail[3]
    THEN [kind |-> "YES_3MONTHS", m2 |-> "", m3 |-> ""]
    ELSE IF month_fail[1] /\ month_fail[2]
      THEN [kind |-> "YES_2MONTHS",
            m2 |-> MonthAbbrev(MonthOf(latest_months[1])),
            m3 |-> MonthAbbrev(MonthOf(latest_months[2]))]
      ELSE [kind |-> "NO", m2 |-> "", m3 |-> ""]

\* The Continuous_FAIL tag: YES_3MONTHS, YES_2MONTHS_<m2>_<m3> or NO.
continuous_fail_tag(month_fail, latest_months) ==
  IF month_fail[1] /\ month_fail[2] /\ month_fail[3]
    THEN [kind |-> "YES_3MONTHS", m2 |-> "", m3 |-> ""]
    ELSE IF month_fail[2] /\ month_fail[3]
      THEN [kind |-> "YES_2MONTHS",
            m2 |-> MonthAbbrev(MonthOf(latest_months[2])),
            m3 |-> MonthAbbrev(MonthOf(latest_months[3]))]
      ELSE [kind |-> "NO", m2 |-> "", m3 |-> ""]

\* Steps 3 and 4: failures per month and the tag of the employee.
TagConsecutiveFailures ==
  /\ fn_pc = "history_loaded"
  /\ LET month_fail == [i \in 1..3 |-> get_failures(fn_out.month_dfs[i]) > 0]
     IN fn_out' = [latest_months |-> fn_out.latest_months,
                   selected |-> fn_out.selected,
                   reported |-> fn_out.reported,
                   month_dfs |-> fn_out.month_dfs,
                   month_fail |-> month_fail,
                   tag |-> continuous_fail_tag(month_fail, fn_out.latest_months)]
  /\ fn_pc' = "tagged"
  /\ UNCHANGED <<fn_in, tbl_vars>>

\* process_aql_conditions(aql_df) without historical_incentive_df: the tag
\* is NO.
ProcessAqlConditionsLegacy ==
  /\ fn_pc = "legacy"
  /\ fn_out' = [latest_months |-> fn_out.latest_months,
                selected |-> fn_out.selected,
                reported |-> fn_out.reported,
                month_dfs |-> <<>>,
                month_fail |-> <<>>,
                tag |-> [kind |-> "NO", m2 |-> "", m3 |-> ""]]
  /\ fn_pc' = "tagged"
  /\ UNCHANGED <<fn_in, tbl_vars>>

NextAql ==
  \/ SelectLatestMonths
  \/ LoadThreeMonths
  \/ TagConsecutiveFailures
  \/ ProcessAqlConditionsLegacy

SpecAql == InitAql /\ [][NextAql]_vars

(***************************************************************************)
(* SpecBldg: _process_building_consolidation and the data-source part of   *)
(* generate_building_review_analysis.  A text is a sequence of characters; *)
(* a cell of the BUILDING or AQL_BUILDING column is missing or holds a     *)
(* text.  roster holds the two cells and the stop date of every employee,  *)
(* config which columns exist, month_data the reconciled BUILDING column,  *)
(* fn_out the discrepancy lists.                                           *)
(***************************************************************************)
\* str.upper() on the characters of the model.
UpperChar(c) ==
  CASE c = "a" -> "A"
    [] c = "b" -> "B"
    [] c = "n" -> "N"
    [] OTHER -> c

RECURSIVE StripLeft(_)
StripLeft(text) ==
  IF text # <<>> /\ Head(text) = " " THEN StripLeft(Tail(text)) ELSE text

RECURSIVE StripRight(_)
StripRight(text) ==
  IF text # <<>> /\ text[Len(text)] = " "
    THEN StripRight(SubSeq(text, 1, Len(text) - 1))
    ELSE text

\* str.strip().
Strip(text) == StripRight(StripLeft(text))

MissingCell == [missing |-> TRUE, text |-> <<>>]

TextCell(text) == [missing |-> FALSE, text |-> text]

\* str(value) of a cell: a missing cell prints as nan.
Str(cell) == IF cell.missing THEN <<"n", "a", "n">> ELSE cell.text

\* The texts read as no value: '', 'nan', 'NaN', 'None'.
NullTexts ==
  {<<>>, <<"n", "a", "n">>, <<"N", "a", "N">>, <<"N", "o", "n", "e">>}

\* The stripped text of a cell, '' when the column does not exist or the text
\* reads as no value.
building_text(cell, has_column) ==
  LET text == IF has_column THEN Strip(Str(cell)) ELSE <<>>
  IN IF text \in NullTexts THEN <<>> ELSE text

\* A reconciliation that takes the audit-history value first.
final_building_aql_first(basic_bldg, aql_bldg) ==
  IF aql_bldg # <<>> THEN aql_bldg ELSE basic_bldg

\* final_bldg of _process_building_consolidation.
final_building(basic_bldg, aql_bldg) ==
  IF basic_bldg # <<>> /\ aql_bldg # <<>> THEN basic_bldg
  ELSE IF basic_bldg # <<>> THEN basic_bldg
  ELSE IF aql_bldg # <<>> THEN aql_bldg
  ELSE <<>>

\* normalize_building: the first character in upper case, None (here the
\* empty text) for a text that reads as no value.
normalize_building(bldg) ==
  IF Strip(bldg) \in NullTexts \cup {<<"N", "/", "A">>}
    THEN <<>>
    ELSE <<UpperChar(bldg[1])>>

BuildingTexts ==
  {<<>>, <<" ">>, <<"A">>, <<"a">>, <<"A", "2">>, <<" ", "A">>, <<"B">>}

BuildingCells == {MissingCell} \cup {TextCell(t) : t \in BuildingTexts}

BldgEmps == {1}

InitBldg ==
  /\ pc = "merged"
  /\ config \in [has_basic_building : BOOLEAN, has_aql_building : BOOLEAN]
  /\ roster \in [BldgEmps -> [basic : BuildingCells, aql : BuildingCells,
                              stop : {"", "before", "during"}]]
  /\ \A e \in BldgEmps :
       /\ ~config.has_basic_building => roster[e].basic = MissingCell
       /\ ~config.has_aql_building => roster[e].aql = MissingCell
  /\ measured = <<>>
  /\ prev_file = <<>>
  /\ month_data = [e \in BldgEmps |-> [BUILDING |-> Str(roster[e].basic)]]
  /\ subordinate_mapping = <<>>
  /\ fn_pc = "no_call"
  /\ fn_in = <<>>
  /\ fn_out = [building_mismatch_list |-> {}, data_source_mismatch |-> {}]

ProcessBuildingConsolidation ==
  /\ pc = "merged"
  /\ pc' = "consolidated"
  /\ IF ~config.has_basic_building /\ ~config.has_aql_building
       THEN /\ month_data' = [e \in Emps |-> [BUILDING |-> <<>>]]
            /\ fn_out' = fn_out
       ELSE LET basic_bldg(e) ==
                  building_text(roster[e].basic, config.has_basic_building)
                aql_bldg(e) ==
                  building_text(roster[e].aql, config.has_aql_building)
            IN /\ month_data' =
                    [e \in Emps |->
                       [BUILDING |-> final_building(basic_bldg(e), aql_bldg(e))]]
               /\ fn_out' =
                    [fn_out EXCEPT
                       !.building_mismatch_list =
                          {[emp |-> e, Basic_BUILDING |-> basic_bldg(e),
                            AQL_BUILDING |-> aql_bldg(e),
                            Final_BUILDING |-> basic_bldg(e)] :
                             e \in {x \in Emps :
                                      /\ basic_bldg(x) # <<>>
                                      /\ aql_bldg(x) # <<>>
                                      /\ basic_bldg(x) # aql_bldg(x)}}]
  /\ UNCHANGED <<config, roster, measured, prev_file, subordinate_mapping,
                 fn_pc, fn_in>>

\* Case 3 of generate_building_review_analysis: BUILDING is the reconciled
\* column by now; employees who left before the month are skipped.
GenerateBuildingReviewAnalysis ==
  /\ pc = "consolidated"
  /\ pc' = "reviewed"
  /\ LET hr_building(e) == building_text(TextCell(month_data[e].BUILDING), TRUE)
         aql_building(e) ==
           building_text(roster[e].aql, config.has_aql_building)
     IN fn_out' =
          [fn_out EXCEPT
             !.data_source_mismatch =
                {[emp |-> e, hr_building |-> hr_building(e),
                  aql_building |-> aql_building(e)] :
                   e \in {x \in Emps :
                            /\ roster[x].stop # "before"
                            /\ hr_building(x) # <<>>
                            /\ aql_building(x) # <<>>
                            /\ normalize_building(hr_building(x)) # <<>>
                            /\ normalize_building(aql_building(x)) # <<>>
                            /\ normalize_building(hr_building(x))
                                 # normalize_building(aql_building(x))}}]
  /\ UNCHANGED <<config, roster, measured, prev_file, month_data,
                 subordinate_mapping, fn_pc, fn_in>>

NextBldg ==
  \/ ProcessBuildingConsolidation
  \/ GenerateBuildingReviewAnalysis

SpecBldg == InitBldg /\ [][NextBldg]_vars

(***************************************************************************)
(* A standard TYPE-1 employee over consecutive periods (SpecPeriods): each  *)
(* period's Previous_Incentive is the amount the unified stage computed    *)
(* for the period before.                                                  *)
(***************************************************************************)
\* The categories paid from the standard progression table.
StandardCategories ==
  {"ASSEMBLY_INSPECTOR", "AUDITOR_TRAINER", "MODEL_MASTER", "OTHER"}

InitPeriods ==
  /\ pc = "periods"
  /\ config = <<>>
  /\ roster = <<>>
  /\ measured = <<>>
  /\ prev_file = <<>>
  /\ month_data = <<>>
  /\ subordinate_mapping = <<>>
  /\ fn_pc = "period_closed"
  /\ \E category \in StandardCategories, cfa \in BOOLEAN :
       fn_in = [position_category |-> category, cfa_certified |-> cfa]
  /\ fn_out = [period |-> 0, passed_in_a_row |-> 0, Previous_Incentive |-> 0,
               Continuous_Months |-> 0, Incentive |-> 0]

\* The loop body of calculate_type1_incentive_unified for the employee in one
\* period, Previous_Incentive read from the preceding period's amount.
type1_period(all_conditions_pass) ==
  LET previous_incentive == fn_out.Incentive
      continuous_months ==
        calculate_continuous_months_type1_unified(
          all_conditions_pass, fn_in.position_category, previous_incentive)
      incentive_result ==
        calculate_type1_incentive_by_category(
          fn_in.position_category, continuous_months, fn_in.cfa_certified,
          all_conditions_pass)
  IN [period |-> fn_out.period + 1,
      passed_in_a_row |->
        IF all_conditions_pass THEN fn_out.passed_in_a_row + 1 ELSE 0,
      Previous_Incentive |-> previous_incentive,
      Continuous_Months |-> continuous_months,
      Incentive |-> incentive_result.incentive_amount]

PassingPeriod ==
  /\ pc = "periods"
  /\ fn_out.period < MaxMonths
  /\ fn_out' = type1_period(TRUE)
  /\ UNCHANGED <<tbl_vars, fn_pc, fn_in>>

FailingPeriod ==
  /\ pc = "periods"
  /\ fn_out.period < MaxMonths
  /\ fn_out' = type1_period(FALSE)
  /\ UNCHANGED <<tbl_vars, fn_pc, fn_in>>

NextPeriods ==
  \/ PassingPeriod
  \/ FailingPeriod

SpecPeriods == InitPeriods /\ [][NextPeriods]_vars

(***************************************************************************)
(* The audit part of _merge_all_conditions followed by condition 6 of      *)
(* add_condition_evaluation, for one employee (SpecCond6).                 *)
(***************************************************************************)
\* The previous period's incentive file as the legacy detector reads it: its
\* failure counts of the two previous months, or no file.
NoHistoricalData == [loaded |-> FALSE, fails |-> <<0, 0>>]

HistoricalData ==
  {NoHistoricalData}
  \cup {[loaded |-> TRUE, fails |-> <<a, b>>] : a, b \in {0, 1}}

\* The three periods whose history files _merge_all_conditions looks for.
ThreePeriods(calc) == (calc - 2)..calc

InitCond6 ==
  /\ pc = "aql_merge"
  /\ config = <<>>
  /\ roster = <<>>
  /\ measured = <<>>
  /\ prev_file = <<>>
  /\ month_data = <<>>
  /\ subordinate_mapping = <<>>
  /\ fn_pc = "no_call"
  /\ fn_out = NoCall
  /\ \E calc \in CalcPeriods :
       \E files \in [ThreePeriods(calc) ->
                       UNION {FileChoices(q) : q \in ThreePeriods(calc)}] :
         \E historical_data \in HistoricalData, current_fail_count \in {0, 1} :
           /\ \A q \in ThreePeriods(calc) :
                /\ files[q] \in FileChoices(q)
                /\ \A r \in files[q].rows : r.month = MonthOf(q)
           /\ fn_in = [calc |-> calc,
                       files |-> files,
                       historical_data |-> historical_data,
                       current_fail_count |-> current_fail_count]

\* The text of a tag of process_aql_conditions_with_history.
TagText(tag) ==
  IF tag.kind = "YES_2MONTHS"
    THEN "YES_2MONTHS_" \o tag.m2 \o "_" \o tag.m3
    ELSE tag.kind

\* process_aql_conditions_with_history as one call.
process_aql_conditions_with_history(files, calc) ==
  LET selected == get_latest_three_months(files, calc)
      latest_months == IF Len(selected) < 3 THEN default_months ELSE selected
      dfs == [i \in 1..3 |-> load_aql_history(files, latest_months[i])]
      month_fail == [i \in 1..3 |-> get_failures(dfs[i].rows) > 0]
  IN IF \A i \in 1..3 : dfs[i].loaded
       THEN [detector |-> "history",
             Continuous_FAIL |->
               TagText(continuous_fail_tag(month_fail, latest_months))]
       ELSE [detector |-> "legacy_fallback", Continuous_FAIL |-> "NO"]

\* process_aql_conditions (the legacy detector) for an employee of the
\* audit data: YES when both previous months of the previous incentive file
\* and the current month hold failures.
process_aql_conditions(current_fail_count, historical_incentive_df) ==
  LET prev_fails == [i \in 1..2 |-> historical_incentive_df.fails[i] > 0]
  IN [detector |-> "legacy",
      Continuous_FAIL |->
        IF /\ historical_incentive_df.loaded
           /\ prev_fails[1] /\ prev_fails[2]
           /\ current_fail_count > 0
          THEN "YES" ELSE "NO"]

\* _merge_all_conditions: the history detector when the files of the three
\* periods exist, the legacy detector otherwise.
MergeAqlConditions ==
  /\ pc = "aql_merge"
  /\ fn_pc = "no_call"
  /\ LET use_history ==
           \A q \in ThreePeriods(fn_in.calc) : fn_in.files[q].present
         aql_conditions ==
           IF use_history
             THEN process_aql_conditions_with_history(fn_in.files, fn_in.calc)
             ELSE process_aql_conditions(fn_in.current_fail_count,
                                         fn_in.historical_data)
     IN fn_out' = [detector |-> aql_conditions.detector,
                   Continuous_FAIL |-> aql_conditions.Continuous_FAIL,
                   cond_6 |-> ""]
  /\ fn_pc' = "merged"
  /\ UNCHANGED <<fn_in, tbl_vars>>

\* Condition 6 of add_condition_evaluation.
EvaluateCondition6 ==
  /\ pc = "aql_merge"
  /\ fn_pc = "merged"
  /\ fn_out' = [fn_out EXCEPT
                  !.cond_6 =
                     IF is_consecutive_failure_for_year(
                          fn_out.Continuous_FAIL, fn_in.calc \div 12)
                       THEN "FAIL" ELSE "PASS"]
  /\ fn_pc' = "evaluated"
  /\ UNCHANGED <<fn_in, tbl_vars>>

NextCond6 ==
  \/ MergeAqlConditions
  \/ EvaluateCondition6

SpecCond6 == InitCond6 /\ [][NextCond6]_vars

(***************************************************************************)
(* SpecStages: calculate_all_incentives over one TYPE-1 row and an         *)
(* inspector reporting to it, the row's title and final code drawn from    *)
(* the combinations the stage masks tell apart.                            *)
(***************************************************************************)
\* Title, 1ST code and final code of row 1.  Final code E is a line-leader
\* code whatever the title.
StagePositions ==
  {<<"ASSEMBLY INSPECTOR", "A", "A">>, <<"ASSEMBLY INSPECTOR", "A", "E">>,
   <<"LINE LEADER", "E", "E">>, <<"GROUP LEADER", "F", "F">>,
   <<"S.MANAGER", "G", "G">>}

StageEmps == {1, 2}

\* The measured columns offered for a row: the nominal ones, a failed audit
\* and an attendance rate under the threshold.
StageMeasured ==
  {NominalMeasured, [NominalMeasured EXCEPT !.aql_fail = 1],
   [NominalMeasured EXCEPT !.attendance_rate = 87]}

InitStages ==
  /\ pc = "start"
  /\ \E p \in StagePositions :
       roster =
         [e \in StageEmps |->
            [role_type |-> "TYPE-1",
             position |-> IF e = 1 THEN p[1] ELSE "ASSEMBLY INSPECTOR",
             code_1st |-> IF e = 1 THEN p[2] ELSE "A",
             final_code |-> IF e = 1 THEN p[3] ELSE "A",
             full_name |-> e,
             boss_name |-> IF e = 1 THEN 0 ELSE 1,
             mst_boss |-> IF e = 1 THEN 0 ELSE 1,
             stop |-> "", pregnant |-> FALSE, area |-> {}]]
  /\ measured \in [StageEmps -> StageMeasured]
  /\ prev_file \in [StageEmps -> {0, 150000}]
  /\ config \in {[year |-> y, matrix_loaded |-> ml,
                  cfa_certified |-> [e \in StageEmps |-> FALSE],
                  talent_pool |-> [e \in StageEmps |-> 0]] :
                   y \in {2025, 2026}, ml \in BOOLEAN}
  /\ month_data = [e \in StageEmps |-> InitialRow]
  /\ subordinate_mapping = [e \in StageEmps |-> {}]
  /\ NoRoutine

SpecStages == InitStages /\ [][NextRun]_vars

(***************************************************************************)
(* SpecEdges: the traversal of SpecBfs over a manager and two rows below   *)
(* it whose MST boss id, boss name and stop date vary independently, with  *)
(* the mapping of create_manager_subordinate_mapping already built.        *)
(***************************************************************************)
EdgeEmps == {1, 2, 3}

\* Rows 2 and 3: a title, a boss name (empty, a row above it, or a name no
\* row bears), an MST boss id and a stop date.
EdgeRows(e) ==
  [position : {"LINE LEADER", "GROUP LEADER"},
   boss_name : {0, UnknownName} \cup {b \in EdgeEmps : b < e},
   mst_boss : {0} \cup {b \in EdgeEmps : b < e},
   stop : {"", "before", "during"}]

InitEdges ==
  /\ pc = "traversal"
  /\ \E r2 \in EdgeRows(2), r3 \in EdgeRows(3) :
       roster =
         [e \in EdgeEmps |->
            LET r == IF e = 2 THEN r2 ELSE r3
                title == IF e = 1 THEN "S.MANAGER" ELSE r.position
                code == IF title = "LINE LEADER" THEN "E" ELSE "A"
            IN [role_type |-> "TYPE-1", position |-> title,
                code_1st |-> code, final_code |-> code, full_name |-> e,
                boss_name |-> IF e = 1 THEN 0 ELSE r.boss_name,
                mst_boss |-> IF e = 1 THEN 0 ELSE r.mst_boss,
                stop |-> IF e = 1 THEN "" ELSE r.stop,
                pregnant |-> FALSE, area |-> {}]]
  /\ measured = [e \in EdgeEmps |-> NominalMeasured]
  /\ prev_file = [e \in EdgeEmps |-> 0]
  /\ config = [year |-> 2025,
               matrix_loaded |-> TRUE,
               cfa_certified |-> [e \in EdgeEmps |-> FALSE],
               talent_pool |-> [e \in EdgeEmps |-> 0]]
  /\ month_data = [e \in EdgeEmps |-> InitialRow]
  /\ subordinate_mapping = create_manager_subordinate_mapping
  /\ NoRoutine

SpecEdges == InitEdges /\ [][NextBfs]_vars

(***************************************************************************)
(* Properties of the unified TYPE-1 stage (SpecT1).                        *)
(***************************************************************************)
\* The rows the unified stage has computed.
Processed(e) == pc = "type1_done" /\ month_data[e].Position_Category # ""

\* The conditions of the row's category whose column reads FAIL.
FailedColumns(e) ==
  {i \in get_applicable_conditions(month_data[e].Position_Category) :
     month_data[e].cond[i] = "FAIL"}

\* C2: when at least one applicable condition of the period is not passed, the
\* continuous-month count of the period is 0, whatever the previous amount.
C2_FailedEligibilityResetsMonths ==
  \A e \in Emps :
    (Processed(e) /\ FailedColumns(e) # {})
      => month_data[e].Continuous_Months = 0

C2_Witness ==
  \E e \in Emps :
    /\ Processed(e)
    /\ FailedColumns(e) # {}
    /\ month_data[e].Previous_Incentive = 300000
    /\ month_data[e].Continuous_Months = 0

\* C3: a condition whose column is NOT_APPLICABLE is counted neither as
\* applicable nor as passed, in the recorded aggregate and in the payment-time
\* evaluation.
C3_NotApplicableNeverCounted ==
  \A e \in Emps :
    Processed(e) =>
      LET row == month_data[e]
          na == {i \in 1..10 : row.cond[i] = "NOT_APPLICABLE"}
      IN /\ row.conditions_applicable # NaN
            => /\ row.conditions_applicable
                    = Cardinality({i \in 1..10 : row.cond[i] \notin {"MISSING"}} \ na)
               /\ row.conditions_passed
                    = Cardinality({i \in 1..10 : row.cond[i] = "PASS"})
         /\ row.condition_result.applicable_conditions \cap na = {}
         /\ row.condition_result.passed_conditions \cap na = {}

\* C4: a standard-category row whose previous amount is 300,000 and whose
\* applicable conditions all pass gets 4 continuous months and the month-4
\* amount of the progression table.
C4_Month3AmountGivesMonth4 ==
  \A e \in Emps :
    (/\ Processed(e)
     /\ month_data[e].Position_Category \in StandardCategories
     /\ month_data[e].Previous_Incentive = 300000
     /\ FailedColumns(e) = {})
    => /\ month_data[e].Continuous_Months = 4
       /\ month_data[e].Incentive = progression_table[4]

C4_Witness ==
  \E e \in Emps :
    /\ Processed(e)
    /\ month_data[e].Position_Category = "ASSEMBLY_INSPECTOR"
    /\ month_data[e].Previous_Incentive = 300000
    /\ FailedColumns(e) = {}
    /\ month_data[e].Continuous_Months = 4
    /\ month_data[e].Incentive = 350000

\* C8: a standard-category row is paid ProgressionTable[min(months, 15)] when
\* it is eligible and 0 when it fails the 100% rule; the zero is the
\* short-circuit result, whatever months its history would have given.
C8_StandardAmount ==
  \A e \in Emps :
    (Processed(e) /\ month_data[e].Position_Category \in StandardCategories)
    => LET row == month_data[e]
           history_months ==
             calculate_continuous_months_type1_unified(
               TRUE, row.Position_Category, row.Previous_Incentive)
           short_circuit ==
             calculate_type1_incentive_by_category(
               row.Position_Category, history_months,
               config.cfa_certified[e], FALSE)
       IN IF FailedColumns(e) = {}
            THEN row.Incentive
                   = progression_table[Min(row.Continuous_Months, 15)]
            ELSE /\ row.Incentive = 0
                 /\ short_circuit.incentive_amount = 0
                 /\ short_circuit.calculation_method = "conditions_not_met"

C8_Witness ==
  /\ \E e \in Emps :
       /\ Processed(e)
       /\ month_data[e].Position_Category = "MODEL_MASTER"
       /\ FailedColumns(e) = {}
       /\ month_data[e].Previous_Incentive = 1000000
       /\ month_data[e].Continuous_Months = 13
       /\ month_data[e].Incentive = 1000000

(***************************************************************************)
(* Properties of the full run (SpecRun).                                   *)
(***************************************************************************)
\* C1: after a full run of calculate_all_incentives, every row whose final
\* amount is greater than 0 has a recorded passed-condition count equal to
\* its recorded applicable-condition count.
C1_PaidImpliesAllConditionsPassed ==
  pc = "done" =>
    \A e \in Emps :
      month_data[e].Incentive > 0 =>
        month_data[e].conditions_passed = month_data[e].conditions_applicable

\* An eligible line-lead (no attendance condition failed) none of whose
\* reports is flagged for consecutive audit failures.
EligibleLineLead(e) ==
  /\ line_leader_mask(e)
  /\ ~attendance_fail(month_data[e])
  /\ ~check_subordinates_continuous_fail(e)

AfterLineLeaderStage ==
  {"line_leader_done", "head_done", "managers_done", "type2_done",
   "type3_done", "done"}

\* C11: once the line-leader stage has run, a line-lead one of whose direct
\* reports is flagged for consecutive audit failures has amount 0, up to and
\* including the final amount of the run.
C11_FlaggedReportZeroesLineLead ==
  pc \in AfterLineLeaderStage =>
    \A e \in Emps :
      (line_leader_mask(e) /\ check_subordinates_continuous_fail(e))
      => month_data[e].Incentive = 0

(***************************************************************************)
(* Properties of the manager stages (SpecHier).                            *)
(***************************************************************************)
\* The stages from the manager stage on.
AfterManagerStage == {"managers_done", "type2_done", "type3_done", "done"}

\* The attendance conditions calculate_managers_by_manual_logic_fixed
\* requires of a manager.
EligibleManager(e) ==
  /\ manager_mask(e)
  /\ month_data[e].cond[1] \in {"PASS", "NOT_APPLICABLE"}
  /\ month_data[e].cond[2] = "PASS"
  /\ month_data[e].cond[3] = "PASS"
  /\ month_data[e].cond[4] \in {"PASS", "NOT_APPLICABLE"}

ManagerContributors(e) ==
  IF find_all_subordinate_line_leaders(e) # {}
    THEN Receivers(find_all_subordinate_line_leaders(e), month_data)
    ELSE Receivers(all_line_leaders, month_data)

\* The same for a row of the head stage, which falls back to the pool when
\* no line leader found below it was paid.
HeadContributors(e) ==
  IF Receivers(find_all_subordinate_line_leaders(e), month_data) # {}
    THEN Receivers(find_all_subordinate_line_leaders(e), month_data)
    ELSE Receivers(all_line_leaders, month_data)

\* C13: no terminated employee and no employee on pregnancy leave is among
\* the line leaders whose average an eligible manager or head is paid from,
\* neither in the subordinate average nor in the pooled fallback average.
C13_NoTerminatedOrLeaveContributor ==
  pc \in AfterManagerStage =>
    \A e \in Emps :
      LET contributors ==
            IF EligibleManager(e) THEN ManagerContributors(e)
            ELSE IF head_mask(e) /\ ~attendance_fail(month_data[e])
              THEN HeadContributors(e)
              ELSE {}
      IN \A c \in contributors : roster[c].stop = "" /\ ~roster[c].pregnant

\* Row e reports to itself or is on a reporting cycle of length two.
OnCycle(e) ==
  /\ roster[e].mst_boss \in Emps
  /\ \/ roster[e].mst_boss = e
     \/ roster[roster[e].mst_boss].mst_boss = e

\* C14: the line leaders whose average a manager or head row is paid from
\* never include that row itself, whether they were found below it or taken
\* from the pool, even when the row reports to itself or is on a cycle.
C14_ManagerNotInOwnAverage ==
  pc \in AfterManagerStage =>
    \A e \in Emps :
      (manager_mask(e) \/ head_mask(e))
      => /\ e \notin find_all_subordinate_line_leaders(e)
         /\ e \notin all_line_leaders

\* A manager on a cycle, or reporting to itself, paid from the line leaders
\* found below it.
C14_Witness ==
  /\ pc = "managers_done"
  /\ \E e \in Emps :
       /\ EligibleManager(e)
       /\ OnCycle(e)
       /\ find_all_subordinate_line_leaders(e) # {}
       /\ month_data[e].Incentive > 0

(***************************************************************************)
(* Properties of the traversal (SpecBfs, SpecBfsLive).                     *)
(***************************************************************************)
InTraversal == fn_pc \in {"bfs_loop", "returned"}

\* No employee appears twice in the list collected so far.
NoDuplicateLineLeaders ==
  \A i, j \in 1..Len(fn_out.line_leaders) :
    i # j => fn_out.line_leaders[i] # fn_out.line_leaders[j]

\* C15: over reporting graphs with cycles, self-references and duplicate
\* edges, a traversal started from any row returns, and the list it builds
\* never holds an employee more than once.
C15_TraversalTerminatesDeduplicated ==
  /\ [](InTraversal => NoDuplicateLineLeaders)
  /\ (fn_pc = "bfs_loop") ~> (fn_pc = "returned")

\* A traversal started on a cycle has returned line leaders.
C15_Witness ==
  /\ fn_pc = "returned"
  /\ OnCycle(fn_in[1])
  /\ roster[fn_in[1]].boss_name = roster[fn_in[1]].mst_boss
  /\ Len(fn_out.line_leaders) > 0

\* The management tiers from the top down: manager_configs, then the group
\* leaders of the head stage; 0 for every other title.
TierRank(position) ==
  CASE position \in {"S.MANAGER", "SENIOR MANAGER"} -> 5
    [] position = "MANAGER" -> 4
    [] position \in {"A.MANAGER", "ASSISTANT MANAGER"} -> 3
    [] position \in {"(V) SUPERVISOR", "VICE SUPERVISOR", "V.SUPERVISOR",
                     "SUPERVISOR"} -> 2
    [] position = "GROUP LEADER" -> 1
    [] OTHER -> 0

\* Row e is neither terminated nor on pregnancy leave.
Active(e) == roster[e].stop = "" /\ ~roster[e].pregnant

RECURSIVE ReportsThroughTiers(_, _, _)
\* The active rows that report to a row of frontier, or to an active row of a
\* management tier below top that itself is reached that way.
ReportsThroughTiers(top, frontier, reached) ==
  LET reports == {e \in Emps \ reached :
                    Active(e) /\ roster[e].mst_boss \in frontier}
      tiers == {e \in reports :
                  /\ TierRank(roster[e].position) >= 1
                  /\ TierRank(roster[e].position) < top}
  IN IF reports = {}
       THEN reached
       ELSE ReportsThroughTiers(top, tiers, reached \cup reports)

\* C16: a traversal started from a manager returns every active TYPE-1 line
\* leader that reports to it directly or through a chain of active members
\* of the management tiers below it, and takes the reports only of the
\* manager itself and of rows with a management title.
C16_TraversalCollectsEveryLineLead ==
  (fn_pc = "returned" /\ TierRank(roster[fn_in[1]].position) >= 1)
  => LET manager_id == fn_in[1]
         collected == {fn_out.line_leaders[i] :
                         i \in 1..Len(fn_out.line_leaders)}
         connected == ReportsThroughTiers(TierRank(roster[manager_id].position),
                                          {manager_id}, {manager_id})
     IN /\ \A l \in connected \ {manager_id} :
             (roster[l].role_type = "TYPE-1" /\ roster[l].position = "LINE LEADER")
             => l \in collected
        /\ \A e \in fn_out.visited \ {manager_id} :
             \/ roster[e].mst_boss = manager_id
             \/ /\ roster[e].mst_boss \in Emps
                /\ TierRank(roster[roster[e].mst_boss].position) >= 1

\* No row names e as its boss: every reference that could lead to e is
\* empty, bears a name nobody has, or names someone else.
NoReportResolved(e) ==
  \A x \in Emps \ {e} :
    /\ roster[x].mst_boss # e
    /\ roster[x].boss_name # roster[e].full_name

\* Some boss reference of the table is empty and some cannot be resolved.
SomeReferenceUnresolved ==
  /\ \E x \in Emps \ {1} : roster[x].boss_name = 0
  /\ \E x \in Emps : roster[x].boss_name = UnknownName

TaggedTwoConsecutive(e) == measured[e].continuous_fail = "YES_2MONTHS_DEC_JAN"

\* C18: a processed employee tagged 2-consecutive is not zeroed by the tag
\* up to the cutover year (condition 6 is not among its failed conditions),
\* and is paid 0 in every later year.
C18_TwoConsecutiveZeroesAfterCutover ==
  \A e \in Emps :
    (Processed(e) /\ TaggedTwoConsecutive(e)) =>
      IF config.year <= cutover_year
        THEN /\ month_data[e].cond[6] # "FAIL"
             /\ 6 \notin month_data[e].condition_result.failed_conditions
        ELSE month_data[e].Incentive = 0

\* The measured value condition i is computed from is missing.
MissingMeasure(e, i) ==
  CASE i = 1 -> measured[e].attendance_rate = NaN
    [] i = 2 -> measured[e].unapproved_absence = NaN
    [] i = 8 -> measured[e].area_reject_rate = NaN
    [] i = 9 -> measured[e].prs_pass_rate = NaN
    [] i = 10 -> measured[e].prs_qty = NaN
    [] OTHER -> FALSE

\* C24: an applicable condition whose measured value is missing is among the
\* failed conditions of the payment-time evaluation, except the attendance
\* rate when the expected working days are not positive.
C24_MissingMeasureNeverPasses ==
  \A e \in Emps :
    Processed(e) =>
      \A i \in month_data[e].condition_result.applicable_conditions :
        (/\ MissingMeasure(e, i)
         /\ ~(i = 1 /\ measured[e].total_days - measured[e].approved_leave <= 0))
        => i \in month_data[e].condition_result.failed_conditions

\* The title of the row matches no pattern of a known category and its code
\* is not the model-master code.
Unclassified(e) ==
  LET name == Upper(roster[e].position)
  IN /\ ~ContainsAny(name, {"AQL", "CFA CERTIFIED", "MANAGER", "SUPERVISOR",
                            "GROUP LEADER", "LINE LEADER", "AUDIT & TRAINING",
                            "AUDITOR", "TRAINER", "MODEL MASTER", "SAMPLE",
                            "ASSEMBLY INSPECTOR"})
     /\ roster[e].code_1st # "D"

\* C26: a processed row whose position is in no known category has the
\* fallback category OTHER and a diagnostic, whatever its amount.
C26_UnclassifiedRowHasDiagnostic ==
  \A e \in Emps :
    (Processed(e) /\ Unclassified(e)) =>
      /\ month_data[e].Position_Category = "OTHER"
      /\ month_data[e].diagnostics # {}

(***************************************************************************)
(* Properties of the audit history (SpecAql).                              *)
(***************************************************************************)
\* The tag was computed from three loaded months.
TaggedFromHistory == fn_pc = "tagged" /\ Len(fn_out.month_fail) = 3

\* C17: for three audit periods in the order used, failure in all three
\* gives the 3-consecutive tag, failure in the two most recent but not in
\* all three gives the 2-consecutive tag, and every other combination gives
\* the tag NO.
C17_TagFromThreePeriods ==
  TaggedFromHistory =>
    LET f == fn_out.month_fail
    IN /\ fn_out.latest_months[1] < fn_out.latest_months[2]
       /\ fn_out.latest_months[2] < fn_out.latest_months[3]
       /\ (f[1] /\ f[2] /\ f[3]) => fn_out.tag.kind = "YES_3MONTHS"
       /\ (~f[1] /\ f[2] /\ f[3]) => fn_out.tag.kind = "YES_2MONTHS"
       /\ ~(f[2] /\ f[3]) => fn_out.tag.kind = "NO"

\* The employee failed the two earliest periods only and is tagged NO.
C17_Witness ==
  /\ TaggedFromHistory
  /\ fn_out.month_fail = <<TRUE, TRUE, FALSE>>
  /\ fn_out.tag.kind = "NO"

\* The records of the file of a period whose MONTH field is another month.
Disagreeing(period) ==
  {r \in FileAt(fn_in.files, period).rows : r.month # MonthOf(period)}

\* C19: in every file the failures are counted from, the records whose
\* period field disagrees with the file's period are left out of the count,
\* the other records of the file are counted, and the number of records
\* left out is reported.
C19_DisagreeingRecordsExcludedAndReported ==
  TaggedFromHistory =>
    \A i \in 1..3 :
      LET period == fn_out.latest_months[i]
          agreeing == FileAt(fn_in.files, period).rows \ Disagreeing(period)
      IN /\ fn_out.month_fail[i] = (get_failures(agreeing) > 0)
         /\ Disagreeing(period) # {}
              => [period |-> period,
                  removed |-> Cardinality(Disagreeing(period))]
                   \in fn_out.reported

\* C20: a 2- or 3-consecutive tag comes from three selected periods that
\* follow one another in the calendar, in chronological order; with a gap
\* or with fewer than three periods the tag is NO.
C20_TagOnlyFromConsecutivePeriods ==
  (fn_pc = "tagged" /\ fn_out.tag.kind # "NO") =>
    /\ Len(fn_out.selected) = 3
    /\ fn_out.latest_months[2] = fn_out.latest_months[1] + 1
    /\ fn_out.latest_months[3] = fn_out.latest_months[2] + 1

(***************************************************************************)
(* The order of the stages of calculate_all_incentives (SpecRun).          *)
(***************************************************************************)
\* The individual contributors whose amount the line-leader stage reads: the
\* TYPE-1 reports of a line leader that the unified TYPE-1 stage has paid.
ReadByLineLeadRollup ==
  {s \in Emps :
     /\ roster[s].role_type = "TYPE-1"
     /\ month_data[s].Position_Category # ""
     /\ \E l \in Emps : line_leader_mask(l) /\ s \in subordinate_mapping[l]}

\* The line leaders whose amount the managers' stage reads.
ReadByManagerRollup ==
  UNION {IF find_all_subordinate_line_leaders(m) # {}
           THEN find_all_subordinate_line_leaders(m)
           ELSE all_line_leaders : m \in {e \in Emps : manager_mask(e)}}

\* C21: no continuous-month count exists before the conditions are
\* evaluated; no step after the line-leader stage changes the amount of an
\* individual contributor that stage has read; no step after the managers'
\* stage changes the amount of a line leader that stage has read.
C21_AmountsFinalBeforeRollups ==
  [][/\ pc = "start"
          => (\A e \in Emps : month_data'[e].Continuous_Months = NaN)
     /\ pc \in AfterLineLeaderStage
          => (\A s \in ReadByLineLeadRollup :
                month_data'[s].Incentive = month_data[s].Incentive)
     /\ pc \in AfterManagerStage
          => (\A l \in ReadByManagerRollup :
                month_data'[l].Incentive = month_data[l].Incentive)]_vars

(***************************************************************************)
(* Properties of the work-area reconciliation (SpecBldg).                  *)
(***************************************************************************)
\* A cell holds a value: it is not missing and not blank.
Present(cell) == ~cell.missing /\ Strip(cell.text) # <<>>

Consolidated == pc \in {"consolidated", "reviewed"}

\* C22: the reconciled BUILDING of every employee is the roster value when
\* the roster has one, the audit-history value when only the audit history
\* has one, and empty when neither has (values without surrounding blanks).
C22_RosterValueFirst ==
  Consolidated =>
    \A e \in Emps :
      month_data[e].BUILDING =
        IF Present(roster[e].basic) THEN Strip(roster[e].basic.text)
        ELSE IF Present(roster[e].aql) THEN Strip(roster[e].aql.text)
        ELSE <<>>

\* Both sources hold a value, they differ, and the roster value is kept.
C22_Witness ==
  /\ Consolidated
  /\ \E e \in Emps :
       /\ roster[e].basic = TextCell(<<"A", "2">>)
       /\ roster[e].aql = TextCell(<<"B">>)
       /\ month_data[e].BUILDING = <<"A", "2">>

\* The parent zone of a value in upper case.
ParentZone(cell) == <<UpperChar(Strip(cell.text)[1])>>

\* C23: an employee has a discrepancy record exactly when both work-area
\* values are present and their normalized forms (upper case, sub-zone
\* collapsed to the parent zone) differ.
C23_DiscrepancyIffNormalizedDiffer ==
  Consolidated =>
    \A e \in Emps :
      (\E r \in fn_out.building_mismatch_list : r.emp = e)
        <=> /\ Present(roster[e].basic)
            /\ Present(roster[e].aql)
            /\ ParentZone(roster[e].basic) # ParentZone(roster[e].aql)

(***************************************************************************)
(* Properties of the chain of periods (SpecPeriods).                       *)
(***************************************************************************)
\* C27: after k >= 1 consecutive passing periods that began with a zero
\* previous amount, the continuous-month count of the k-th period is
\* min(k, 15).
C27_CountIsMinOfStreakAnd15 ==
  (pc = "periods" /\ fn_out.passed_in_a_row >= 1) =>
    fn_out.Continuous_Months = Min(fn_out.passed_in_a_row, 15)

(***************************************************************************)
(* Properties of the choice of detector (SpecCond6).                       *)
(***************************************************************************)
\* The data the run reads hold a failure of the employee in each of the three
\* periods: the three history files when they exist, otherwise the two
\* previous months of the previous incentive file and the current audit data.
FailedAllThree ==
  IF \A q \in ThreePeriods(fn_in.calc) : fn_in.files[q].present
    THEN \A q \in ThreePeriods(fn_in.calc) : OwnFail(q) \in fn_in.files[q].rows
    ELSE /\ fn_in.historical_data.loaded
         /\ fn_in.historical_data.fails[1] > 0
         /\ fn_in.historical_data.fails[2] > 0
         /\ fn_in.current_fail_count > 0

\* C28: an employee with failures in each of the three periods fails
\* condition 6 in every policy period, whichever detector wrote the tag.
C28_FailedAllThreeFailsCondition6 ==
  (pc = "aql_merge" /\ fn_pc = "evaluated" /\ FailedAllThree) =>
    fn_out.cond_6 = "FAIL"

(***************************************************************************)
(* Properties of the stages over one row (SpecStages).                     *)
(***************************************************************************)
\* The stages that follow the unified TYPE-1 stage and compute an amount from
\* reports start in these positions: line-leader, head and manager stage.
RollupStageStarts == {"mapping_done", "line_leader_done", "head_done"}

\* C29: a row the unified TYPE-1 stage has written (its amount may be 0) keeps
\* its amount through the line-leader, head and manager stages.
C29_RollupStagesLeaveWrittenAmounts ==
  [][\A e \in Emps :
       (pc \in RollupStageStarts /\ month_data[e].Position_Category # "")
         => (month_data'[e].Incentive = month_data[e].Incentive)]_vars

(***************************************************************************)
(* Properties of the traversal against the mapping (SpecEdges).            *)
(***************************************************************************)
\* C30: in every iteration of the traversal, a row not yet visited is taken
\* as a direct subordinate of the row being expanded exactly when the mapping
\* holds the edge from it to that row.
C30_TraversalFollowsMappingEdges ==
  [][\A e \in Emps :
       (fn_pc = "bfs_loop" /\ fn_out.queue # <<>> /\ e \notin fn_out.visited)
         => ((e \in fn_out'.visited)
               <=> (e \in subordinate_mapping[Head(fn_out.queue)]))]_vars

====
